---- MODULE Spec2Model ----
(***************************************************************************)
(* BAC0 router discovery and router-path caching.                          *)
(*                                                                         *)
(* The model follows BAC0/core/functions/Alias.py (who_is,                  *)
(* whois_router_to_network, use_router, what_is_network_number) and        *)
(* BAC0/scripts/Base.py (routing_table).  Coroutines are logical tasks of  *)
(* one asyncio event loop: a task runs until it awaits a network reply,    *)
(* and `running` names the task that holds the loop (0: the loop is free). *)
(***************************************************************************)
EXTENDS Integers, Sequences, FiniteSets, TLC

\* ------------------------------------------------------------------ bounds

NTasks == 2

Tasks == 1..NTasks

\* ------------------------------------------------------------- value model

\* Python None, where a network number is expected (network numbers are >= 1).
None == 0

AddrA == [net |-> 2, mac |-> 5]
AddrB == [net |-> 3, mac |-> 7]
NoAddr == [net |-> 0, mac |-> 0]
Addresses == {AddrA, AddrB}

\* Address(text): the address a string parses to; NoAddr stands for the
\* constructor raising.
ParseAddress(text) ==
    CASE text = "2:5" -> AddrA
      [] text = "2:0x05" -> AddrA
      [] text = "3:7" -> AddrB
      [] OTHER -> NoAddr

\* str(address)
AddressStr(a) == ToString(a.net) \o ":" \o ToString(a.mac)

available == "available"
disconnected == "disconnected"

\* ------------------------------------------------------ insertion-ordered dict

\* A Python dict: a sequence of [key, val] in insertion order, keys distinct.
Keys(d) == {d[i].key : i \in DOMAIN d}

Get(d, k) == d[CHOOSE i \in DOMAIN d : d[i].key = k].val

\* d[k] = v : an existing key keeps its place.
Put(d, k, v) ==
    IF k \in Keys(d)
    THEN [i \in DOMAIN d |-> IF d[i].key = k THEN [key |-> k, val |-> v] ELSE d[i]]
    ELSE Append(d, [key |-> k, val |-> v])

SeqToSet(s) == {s[i] : i \in DOMAIN s}

VARIABLES
    router_dnets,     \* nsap.router_info_cache.router_dnets: (snet, address) -> dnets
    path_info,        \* nsap.router_info_cache.path_info: (snet, dnet) -> (address, status)
    learnedNetworks,  \* this_application._learnedNetworks
    routers,          \* self._routers, the mapping routing_table builds
    pc,               \* each task's position
    op,               \* the operation each task runs (or ran last)
    loc,              \* each task's locals
    ret,              \* what each task's last call returned or raised
    calls,            \* the engine requests each task's current call has issued
    running,          \* the task holding the event loop, 0 when it is free
    _used_ips,        \* Base._used_ips, the class-level set of addresses in use
    bases,            \* the Base objects: their fields, and how __init__ ended
    apps,             \* the cache of each application whose Base is not `current`
    current,          \* the Base object the tasks call methods on (0: none yet)
    runner,           \* script_runner.run: the state of its loop, its bacnet argument
    point             \* the I/O point of the remote controller that sim and release address

vars == <<router_dnets, path_info, learnedNetworks, routers, pc, op, loc, ret, calls, running,
          _used_ips, bases, apps, current, runner, point>>

\* The Base objects and what they own beyond the current one's cache, the
\* loop of script_runner.run and the remote point.
world == <<_used_ips, bases, apps, current, runner, point>>

cache == <<router_dnets, path_info, learnedNetworks>>

\* ----------------------------------------------------------- Python values

PyNone == [type |-> "None", list |-> <<>>, int |-> 0]
PyList(s) == [type |-> "list", list |-> s, int |-> 0]
PyInt(n) == [type |-> "int", list |-> <<>>, int |-> n]
PyDict == [type |-> "dict", list |-> <<>>, int |-> 0]

\* How a call ends: it returns a value or raises, after logging a last
\* message at some level ("" when it logged none after its request).
Return(v, level) == [status |-> "returned", exc |-> "", val |-> v, log |-> level]
Raise(e) == [status |-> "raised", exc |-> e, val |-> PyNone, log |-> ""]

\* A task's record of its call: what the awaited engine request delivered
\* (event, and data for a reply), and how the call ended.
NoRet == [event |-> "", data |-> PyNone, status |-> "none", exc |-> "",
          val |-> PyNone, log |-> ""]
Delivered(e, d) == [NoRet EXCEPT !.event = e, !.data = d]
Ended(r, o) == [r EXCEPT !.status = o.status, !.exc = o.exc, !.val = o.val,
                         !.log = o.log]

NoDest == [kind |-> "None", addr |-> NoAddr]
DirectedTo(a) == [kind |-> "addr", addr |-> a]
GlobalBroadcast == [kind |-> "global", addr |-> NoAddr]

NoLoc == [address |-> NoAddr, dnets |-> <<>>, snet |-> None, i |-> 0,
          dest |-> NoDest, network |-> None, self |-> 0, value |-> 0,
          written |-> FALSE]

\* ------------------------------------------------------------------ inputs

\* router_infos tuples given to use_router: (address, dnets) or
\* (address, dnets, snet); the address an Address or a string, dnets a list
\* or a bare int.
RouterInfo(n, isAddr, a, text, isList, l, d, s) ==
    [len |-> n, addr_is_obj |-> isAddr, addr_obj |-> a, addr_str |-> text,
     dnets_is_list |-> isList, dnets_list |-> l, dnets_int |-> d, snet |-> s]

RouterInfos ==
    { RouterInfo(2, FALSE, NoAddr, "2:5", TRUE, <<10, 11>>, 0, None),
      RouterInfo(3, TRUE, AddrA, "", FALSE, <<>>, 10, None),
      RouterInfo(3, FALSE, NoAddr, "3:7", TRUE, <<10>>, 0, None),
      RouterInfo(2, FALSE, NoAddr, "2.5.x", TRUE, <<10>>, 0, None) }

\* A wider choice, for use_router calls checked on their own: a second
\* source network, a second spelling of an address, a repeated dnet.
RegistrarInfos ==
    RouterInfos \cup
    { RouterInfo(3, FALSE, NoAddr, "2:0x05", TRUE, <<11, 11>>, 0, 1) }

\* Network numbers a router or the local port may report.
ReportedNets == {10, 11}
ReportedLists == {<<10, 11>>}

\* ------------------------------------------------------------------ engine

\* nsap.update_router_references(snet, address, dnets): the engine records the
\* destination networks of router (snet, address).
EngineUpdateRouterReferences(rd, snet, address, dnets) ==
    Put(rd, <<snet, address>>, SeqToSet(dnets))

\* router_info_cache.set_path_info(snet, dnet, address, status)
EngineSetPathInfo(pi, snet, dnet, address, status) ==
    Put(pi, <<snet, dnet>>, <<address, status>>)

\* The loop's holder once an awaited cache primitive of the engine has
\* returned: the in-memory cache never suspends its caller.
AfterAwait(t) == t

\* ------------------------------------------------------------- scheduling

\* Faulty variant: the loop body gives the event loop away between two networks
LoopHolderYields(t) == 0

\* The loop's holder between two iterations of "for each in dnets": the body
\* has no suspension of its own.
LoopHolder(t) == t

\* Task t may take its next step: the loop is free, or t holds it, and the
\* loop has not left run_forever (a stopped loop still ends its iteration).
Scheduled(t) == running \in {0, t} /\ runner.loop \in {"run_forever", "stopping"}

\* The call of task t ends with r: its locals go, the loop is free.
Finish(t, r) ==
    /\ pc' = [pc EXCEPT ![t] = "idle"]
    /\ ret' = [ret EXCEPT ![t] = r]
    /\ loc' = [loc EXCEPT ![t] = NoLoc]
    /\ calls' = [calls EXCEPT ![t] = <<>>]
    /\ running' = 0

Begin(t, name) ==
    /\ Scheduled(t)
    /\ pc[t] = "idle"
    /\ current # 0
    /\ op' = [op EXCEPT ![t] = name]

\* -------------------------------------------------------------- use_router

\* snet = router_infos[2], None on IndexError
UseRouterSnet(ri) == IF ri.len >= 3 THEN ri.snet ELSE None

\* address = Address(address) unless it is an Address already
UseRouterAddress(ri) ==
    IF ri.addr_is_obj THEN ri.addr_obj ELSE ParseAddress(ri.addr_str)

\* Faulty variant: a bare network number is spread like a list of its own
UseRouterDnetsSpread(ri) ==
    IF ri.dnets_is_list THEN ri.dnets_list ELSE <<>>

\* dnets = [dnets] unless it is a list already
UseRouterDnets(ri) ==
    IF ri.dnets_is_list THEN ri.dnets_list ELSE <<ri.dnets_int>>

\* Faulty variant: the path is recorded as it was last reported by the engine
UseRouterStatusDisconnected == disconnected

\* The status use_router records for each path it writes.
UseRouterStatus == available

\* Faulty variant: every iteration commits the list's first network
UseRouterEachFirst(t) == loc[t].dnets[1]

\* The network the loop's iteration i commits.
UseRouterEach(t) == loc[t].dnets[loc[t].i]

\* Faulty variant: the router reference is updated before the probe is awaited
UseRouterCallEager(t, ri) ==
    /\ Begin(t, "use_router")
    /\ LET address == IF ri.addr_is_obj THEN ri.addr_obj ELSE ParseAddress(ri.addr_str)
           dnets == IF ri.dnets_is_list THEN ri.dnets_list ELSE <<ri.dnets_int>>
           snet == IF ri.len >= 3 THEN ri.snet ELSE None
       IN
       IF address = NoAddr
       THEN /\ Finish(t, Ended(NoRet, Raise("ValueError")))
            /\ router_dnets' = router_dnets
       ELSE /\ loc' = [loc EXCEPT ![t] = [NoLoc EXCEPT !.address = address,
                                                      !.dnets = dnets, !.snet = snet]]
            /\ router_dnets' = EngineUpdateRouterReferences(router_dnets, snet, address, dnets)
            /\ calls' = [calls EXCEPT ![t] = <<"update_router_references", "who_is">>]
            /\ pc' = [pc EXCEPT ![t] = "probe"]
            /\ ret' = [ret EXCEPT ![t] = NoRet]
            /\ running' = 0
    /\ UNCHANGED <<path_info, learnedNetworks, routers, world>>

\* use_router up to its first suspension: the coercions, then the probe
\* who_is(address) is sent and the task waits for its result.
UseRouterCall(t, ri) ==
    /\ Begin(t, "use_router")
    /\ LET address == UseRouterAddress(ri) IN
       IF address = NoAddr
       THEN Finish(t, Ended(NoRet, Raise("ValueError")))
       ELSE /\ loc' = [loc EXCEPT ![t] = [NoLoc EXCEPT !.address = address,
                                                      !.dnets = UseRouterDnets(ri),
                                                      !.snet = UseRouterSnet(ri)]]
            /\ calls' = [calls EXCEPT ![t] = <<"who_is">>]
            /\ pc' = [pc EXCEPT ![t] = "probe"]
            /\ ret' = [ret EXCEPT ![t] = NoRet]
            /\ running' = 0
    /\ UNCHANGED <<router_dnets, path_info, learnedNetworks, routers, world>>

\* How use_router ends when the probe found no router, and when it has
\* committed a router.
UseRouterOnEmpty == Return(PyNone, "warning")
UseRouterOnDone == Return(PyNone, "info")

\* Faulty variant: "if response is not None": an empty reply list commits too
UseRouterCommitsNotNone(response) == TRUE

\* if response: ... else: the warning
UseRouterCommits(response) == response = "found"

\* who_is returns its list of I-Am replies ("found": the list is not empty,
\* "empty": it is) and the task resumes.  An empty list: the warning, and
\* use_router returns.  Otherwise it goes on to the router-reference update.
UseRouterProbeReturn(t, response) ==
    /\ Scheduled(t)
    /\ pc[t] = "probe"
    /\ IF UseRouterCommits(response)
       THEN /\ pc' = [pc EXCEPT ![t] = "update"]
            /\ running' = t
            /\ ret' = [ret EXCEPT ![t] = Delivered(response, PyNone)]
            /\ UNCHANGED <<loc, calls>>
       ELSE Finish(t, Ended(Delivered(response, PyNone), UseRouterOnEmpty))
    /\ UNCHANGED <<router_dnets, path_info, learnedNetworks, routers, op, world>>

\* Faulty variant: the router's paths are dropped before it is registered anew
UseRouterUpdateDropsPaths(t) ==
    /\ Scheduled(t)
    /\ pc[t] = "update"
    /\ router_dnets' = EngineUpdateRouterReferences(
                           router_dnets, loc[t].snet, loc[t].address, loc[t].dnets)
    /\ path_info' = SelectSeq(path_info, LAMBDA e : e.val[1] # loc[t].address)
    /\ IF loc[t].dnets = <<>>
       THEN Finish(t, Ended(ret[t], UseRouterOnDone))
       ELSE /\ pc' = [pc EXCEPT ![t] = "set_path"]
            /\ loc' = [loc EXCEPT ![t].i = 1]
            /\ calls' = [calls EXCEPT ![t] = Append(@, "update_router_references")]
            /\ running' = t
            /\ ret' = ret
    /\ UNCHANGED <<learnedNetworks, routers, op, world>>

\* await _app.nsap.update_router_references(snet=snet, address=address, dnets=dnets)
UseRouterUpdate(t) ==
    /\ Scheduled(t)
    /\ pc[t] = "update"
    /\ router_dnets' = EngineUpdateRouterReferences(
                           router_dnets, loc[t].snet, loc[t].address, loc[t].dnets)
    /\ IF loc[t].dnets = <<>>
       THEN Finish(t, Ended(ret[t], UseRouterOnDone))
       ELSE /\ pc' = [pc EXCEPT ![t] = "set_path"]
            /\ loc' = [loc EXCEPT ![t].i = 1]
            /\ calls' = [calls EXCEPT ![t] = Append(@, "update_router_references")]
            /\ running' = AfterAwait(t)
            /\ ret' = ret
    /\ UNCHANGED <<path_info, learnedNetworks, routers, op, world>>

\* Faulty variant: the path is deleted and written anew, so that a path registered
\* again moves to the end of path_info
UseRouterSetPathReinsert(t) ==
    /\ Scheduled(t)
    /\ pc[t] = "set_path"
    /\ path_info' =
         Append(SelectSeq(path_info,
                          LAMBDA e : e.key # <<loc[t].snet, loc[t].dnets[loc[t].i]>>),
                [key |-> <<loc[t].snet, loc[t].dnets[loc[t].i]>>,
                 val |-> <<loc[t].address, available>>])
    /\ calls' = [calls EXCEPT ![t] = Append(@, "set_path_info")]
    /\ pc' = [pc EXCEPT ![t] = "learn"]
    /\ running' = t
    /\ UNCHANGED <<router_dnets, learnedNetworks, routers, op, loc, ret, world>>

\* await self._ric.set_path_info(snet, each, address, RouterEntryStatus.available)
UseRouterSetPath(t) ==
    /\ Scheduled(t)
    /\ pc[t] = "set_path"
    /\ path_info' = EngineSetPathInfo(
                        path_info, loc[t].snet, UseRouterEach(t), loc[t].address,
                        UseRouterStatus)
    /\ calls' = [calls EXCEPT ![t] = Append(@, "set_path_info")]
    /\ pc' = [pc EXCEPT ![t] = "learn"]
    /\ running' = AfterAwait(t)
    /\ UNCHANGED <<router_dnets, learnedNetworks, routers, op, loc, ret, world>>

\* Faulty variant: the learned networks are set to the network just written
UseRouterLearnReplace(t) ==
    /\ Scheduled(t)
    /\ pc[t] = "learn"
    /\ learnedNetworks' = {loc[t].dnets[loc[t].i]}
    /\ IF loc[t].i < Len(loc[t].dnets)
       THEN /\ pc' = [pc EXCEPT ![t] = "set_path"]
            /\ loc' = [loc EXCEPT ![t].i = @ + 1]
            /\ running' = t
            /\ UNCHANGED <<ret, calls>>
       ELSE Finish(t, Ended(ret[t], UseRouterOnDone))
    /\ UNCHANGED <<router_dnets, path_info, routers, op, world>>

\* _this_application._learnedNetworks.add(each), then the next dnet or return
UseRouterLearn(t) ==
    /\ Scheduled(t)
    /\ pc[t] = "learn"
    /\ learnedNetworks' = learnedNetworks \cup {UseRouterEach(t)}
    /\ IF loc[t].i < Len(loc[t].dnets)
       THEN /\ pc' = [pc EXCEPT ![t] = "set_path"]
            /\ loc' = [loc EXCEPT ![t].i = @ + 1]
            /\ running' = LoopHolder(t)
            /\ UNCHANGED <<ret, calls>>
       ELSE Finish(t, Ended(ret[t], UseRouterOnDone))
    /\ UNCHANGED <<router_dnets, path_info, routers, op, world>>

\* ------------------------------------------------- whois_router_to_network

\* The destination argument: None, a string, or an Address.
DestNone == [kind |-> "None", text |-> "", obj |-> NoAddr]
DestStr(text) == [kind |-> "str", text |-> text, obj |-> NoAddr]
DestObj(a) == [kind |-> "Address", text |-> "", obj |-> a]

Destinations == {DestNone, DestStr("3:7"), DestStr("2.5.x")}

\* A wider choice, for the discovery primitives checked on their own: an
\* Address given as such, and the empty string.
DiscoveryDestinations == Destinations \cup {DestObj(AddrA), DestStr("")}
Networks == {None, 11}

\* bool(destination): None and the empty string are false.
Truthy(d) == d.kind = "Address" \/ (d.kind = "str" /\ d.text # "")

\* Faulty variant: global_broadcast is looked at before the string is parsed
WhoisDestinationBroadcastFirst(destination, global_broadcast) ==
    IF global_broadcast
    THEN [kind |-> "global", addr |-> NoAddr]
    ELSE IF destination.kind = "str" /\ destination.text # ""
         THEN [kind |-> "addr", addr |-> ParseAddress(destination.text)]
         ELSE IF destination.kind = "Address"
              THEN [kind |-> "addr", addr |-> destination.obj]
              ELSE [kind |-> "None", addr |-> NoAddr]

\* The destination of the request: Address(destination) for a given string,
\* else GlobalBroadcast() when global_broadcast is set, else the argument.
\* A destination with address NoAddr and kind "addr" stands for Address raising.
WhoisDestination(destination, global_broadcast) ==
    IF Truthy(destination) /\ destination.kind # "Address"
    THEN DirectedTo(ParseAddress(destination.text))
    ELSE IF global_broadcast
         THEN GlobalBroadcast
         ELSE IF destination.kind = "Address" THEN DirectedTo(destination.obj)
              ELSE NoDest

\* Faulty variant: the TimeoutError is not caught
WhoisOnTimeoutRaises == Raise("TimeoutError")

\* What whois_router_to_network returns when wait_for raises TimeoutError.
WhoisOnTimeout == Return(PyList(<<>>), "warning")

\* What it returns for the engine's reply network_numbers.
WhoisOnReply(nets) == Return(PyList(nets), "")

WhoisCall(t, network, destination, global_broadcast) ==
    /\ Begin(t, "whois_router_to_network")
    /\ LET dest == WhoisDestination(destination, global_broadcast) IN
       IF dest.kind = "addr" /\ dest.addr = NoAddr
       THEN Finish(t, Ended(NoRet, Raise("ValueError")))
       ELSE /\ loc' = [loc EXCEPT ![t] = [NoLoc EXCEPT !.dest = dest, !.network = network]]
            /\ calls' = [calls EXCEPT ![t] = <<"who_is_router_to_network">>]
            /\ pc' = [pc EXCEPT ![t] = "wirtn"]
            /\ ret' = [ret EXCEPT ![t] = NoRet]
            /\ running' = 0
    /\ UNCHANGED <<router_dnets, path_info, learnedNetworks, routers, world>>

\* Faulty variant: the networks a router reports are learned at once
WhoisReplyLearns(t, nets) ==
    /\ Scheduled(t)
    /\ pc[t] = "wirtn"
    /\ learnedNetworks' = learnedNetworks \cup SeqToSet(nets)
    /\ Finish(t, Ended(Delivered("reply", PyList(nets)), WhoisOnReply(nets)))
    /\ UNCHANGED <<router_dnets, path_info, routers, op, world>>

\* The engine's reply arrives before the timeout: return network_numbers.
WhoisReply(t, nets) ==
    /\ Scheduled(t)
    /\ pc[t] = "wirtn"
    /\ Finish(t, Ended(Delivered("reply", PyList(nets)), WhoisOnReply(nets)))
    /\ UNCHANGED <<router_dnets, path_info, learnedNetworks, routers, op, world>>

\* Faulty variant: the request is sent again when the timer expires
WhoisTimeoutRetries(t) ==
    /\ Scheduled(t)
    /\ pc[t] = "wirtn"
    /\ Len(calls[t]) < 2
    /\ calls' = [calls EXCEPT ![t] = Append(@, "who_is_router_to_network")]
    /\ UNCHANGED <<router_dnets, path_info, learnedNetworks, routers, pc, op, loc,
                   ret, running, world>>

\* Faulty variant: the request is awaited without wait_for: no timer ever expires
WhoisTimeoutNever(t) ==
    /\ pc[t] = "wirtn"
    /\ FALSE
    /\ UNCHANGED vars

\* asyncio.wait_for's timer expires first: the warning, return [].
WhoisTimeout(t) ==
    /\ Scheduled(t)
    /\ pc[t] = "wirtn"
    /\ Finish(t, Ended(Delivered("timeout", PyNone), WhoisOnTimeout))
    /\ UNCHANGED <<router_dnets, path_info, learnedNetworks, routers, op, world>>

\* -------------------------------------------------- what_is_network_number

\* The destination of the request nse.what_is_network_number() is given.
WinnDestination(destination) == NoDest

\* Faulty variant: the TimeoutError is not caught
WinnOnTimeoutRaises == Raise("TimeoutError")

\* What what_is_network_number returns when wait_for raises TimeoutError.
WinnOnTimeout == Return(PyNone, "warning")

\* What it returns for the engine's reply n.
WinnOnReply(n) == Return(PyInt(n), "")

WinnCall(t, destination) ==
    /\ Begin(t, "what_is_network_number")
    /\ loc' = [loc EXCEPT ![t] = [NoLoc EXCEPT !.dest = WinnDestination(destination)]]
    /\ calls' = [calls EXCEPT ![t] = <<"what_is_network_number">>]
    /\ pc' = [pc EXCEPT ![t] = "winn"]
    /\ ret' = [ret EXCEPT ![t] = NoRet]
    /\ running' = 0
    /\ UNCHANGED <<router_dnets, path_info, learnedNetworks, routers, world>>

WinnReply(t, n) ==
    /\ Scheduled(t)
    /\ pc[t] = "winn"
    /\ Finish(t, Ended(Delivered("reply", PyInt(n)), WinnOnReply(n)))
    /\ UNCHANGED <<router_dnets, path_info, learnedNetworks, routers, op, world>>

WinnTimeout(t) ==
    /\ Scheduled(t)
    /\ pc[t] = "winn"
    /\ Finish(t, Ended(Delivered("timeout", PyNone), WinnOnTimeout))
    /\ UNCHANGED <<router_dnets, path_info, learnedNetworks, routers, op, world>>

\* ------------------------------------------------------ init_routing_table

\* address = Address(address) unless it is None or an Address already
IrtDestination(address) ==
    IF address.kind = "str" THEN DirectedTo(ParseAddress(address.text))
    ELSE IF address.kind = "Address" THEN DirectedTo(address.obj)
         ELSE NoDest

\* init_routing_table up to its await of nse.initialize_routing_table.
IrtCall(t, address) ==
    /\ Begin(t, "init_routing_table")
    /\ LET dest == IrtDestination(address) IN
       IF dest.kind = "addr" /\ dest.addr = NoAddr
       THEN Finish(t, Ended(NoRet, Raise("ValueError")))
       ELSE /\ loc' = [loc EXCEPT ![t] = [NoLoc EXCEPT !.dest = dest]]
            /\ calls' = [calls EXCEPT ![t] = <<"initialize_routing_table">>]
            /\ pc' = [pc EXCEPT ![t] = "irt"]
            /\ ret' = [ret EXCEPT ![t] = NoRet]
            /\ running' = 0
    /\ UNCHANGED <<router_dnets, path_info, learnedNetworks, routers, world>>

\* The engine's request coroutine is done: init_routing_table returns None.
IrtReturn(t) ==
    /\ Scheduled(t)
    /\ pc[t] = "irt"
    /\ Finish(t, Ended(Delivered("sent", PyNone), Return(PyNone, "")))
    /\ UNCHANGED <<router_dnets, path_info, learnedNetworks, routers, op, world>>

\* ----------------------------------------------------------- routing_table

Router(snet, address, dnets, path) ==
    [source_network |-> snet, address |-> address,
     destination_networks |-> dnets, path |-> path]

\* Faulty variant: routers are filed under their network number alone
RouterKeyNet(address) == ToString(address.net)

\* The key routing_table files a router under.
RouterKey(address) == AddressStr(address)

\* Faulty variant: an address already in the mapping keeps its first record
RECURSIVE FoldRoutersFirstWins(_, _)
FoldRoutersFirstWins(rd, acc) ==
    IF rd = <<>> THEN acc
    ELSE LET e == Head(rd)
             k == ToString(e.key[2].net) \o ":" \o ToString(e.key[2].mac)
         IN FoldRoutersFirstWins(
                Tail(rd),
                acc @@ (k :> [source_network |-> e.key[1], address |-> e.key[2],
                              destination_networks |-> e.val, path |-> <<>>]))

\* for router, dnets in router_dnets.items():
\*     self._routers[str(address)] = Router(snet, address, dnets, path=[])
RECURSIVE FoldRouters(_, _)
FoldRouters(rd, acc) ==
    IF rd = <<>> THEN acc
    ELSE LET e == Head(rd)
             snet == e.key[1]
             address == e.key[2]
         IN FoldRouters(Tail(rd),
                        (RouterKey(address) :> Router(snet, address, e.val, <<>>)) @@ acc)

\* Faulty variant: a path whose router is not in the mapping is skipped
RECURSIVE FoldPathsSkipMissing(_, _)
FoldPathsSkipMissing(pi, acc) ==
    IF pi = <<>> THEN [raised |-> FALSE, routers |-> acc]
    ELSE LET e == Head(pi)
             k == ToString(e.val[1].net) \o ":" \o ToString(e.val[1].mac)
         IN IF k \notin DOMAIN acc
            THEN FoldPathsSkipMissing(Tail(pi), acc)
            ELSE FoldPathsSkipMissing(
                     Tail(pi), [acc EXCEPT ![k].path = Append(@, <<e.key, e.val[2]>>)])

\* for path, router_info in path_info.items():
\*     self._routers[str(router_address)].path.append((path, router_status))
\* A missing key raises KeyError and leaves self._routers as built so far.
RECURSIVE FoldPaths(_, _)
FoldPaths(pi, acc) ==
    IF pi = <<>> THEN [raised |-> FALSE, routers |-> acc]
    ELSE LET e == Head(pi)
             router_address == e.val[1]
             router_status == e.val[2]
             k == RouterKey(router_address)
         IN IF k \notin DOMAIN acc
            THEN [raised |-> TRUE, routers |-> acc]
            ELSE FoldPaths(Tail(pi),
                           [acc EXCEPT ![k].path = Append(@, <<e.key, router_status>>)])

EmptyDict == [k \in {} |-> 0]

RoutingTableOf(rd, pi) == FoldPaths(pi, FoldRouters(rd, EmptyDict))

\* Faulty variant: the view is built on top of the one built before
RoutingTableStartKept(prev) == prev

\* self._routers = {} : what an access starts from, prev being the mapping
\* the access before it left in self._routers.
RoutingTableStart(prev) == EmptyDict

\* The routing_table property: synchronous, no suspension.
RoutingTable(t) ==
    /\ Begin(t, "routing_table")
    /\ LET r == FoldPaths(path_info, FoldRouters(router_dnets, RoutingTableStart(routers))) IN
       /\ routers' = r.routers
       /\ Finish(t, Ended(NoRet, IF r.raised THEN Raise("KeyError")
                                  ELSE Return(PyDict, "")))
    /\ UNCHANGED <<router_dnets, path_info, learnedNetworks, world>>

\* -------------------------------------------------------------------- Base

NInstances == 3

Instances == 1..NInstances

\* localIPAddr values: two addresses validate_ip_address accepts and one it
\* refuses.
IPA == "192.168.1.10/24"
IPB == "192.168.1.11/24"
BadIP == "192.168.1.300/24"
LocalIPs == {IPA, IPB, BadIP}

validate_ip_address(ip) == ip # BadIP

\* A Base object before __init__ has run: `outcome` is how __init__ ended
\* ("none": not run, "returned", or the exception it raised), localIPAddr is
\* "" while the attribute is not set, this_application 0 while there is none.
NoBase == [outcome |-> "none", localIPAddr |-> "", _initialized |-> FALSE,
           _started |-> FALSE, _stopped |-> FALSE, this_application |-> 0,
           _routers |-> EmptyDict]

\* The cache a new application starts with.
EmptyApp == [router_dnets |-> <<>>, path_info |-> <<>>, learnedNetworks |-> {}]

\* Faulty variant: one application object serves every Base
BAC0ApplicationSingleton(bs) == 1

\* self.this_application = BAC0Application(...): a new application object,
\* named by the number of applications made so far plus one.
BAC0Application(bs) ==
    1 + Cardinality({i \in DOMAIN bs : bs[i].this_application # 0})

\* Faulty variant: __init__ only validates the address
InitRejectsInvalid(used, localIPAddr) == ~validate_ip_address(localIPAddr)

\* __init__ raises InitializationError before startApp: the address is in
\* Base._used_ips, or validate_ip_address refuses it.
InitRejects(used, localIPAddr) ==
    localIPAddr \in used \/ ~validate_ip_address(localIPAddr)

\* Base(localIPAddr=...): __init__ and the startApp it calls, run to the end
\* without suspension.  `binds` is whether the application could open its
\* socket; an OSError of startApp is raised again as InitializationError.
\* Objects are numbered in the order they are made.
Construct(i, localIPAddr, binds) ==
    /\ running = 0
    /\ bases[i].outcome = "none"
    /\ \A j \in Instances : j < i => bases[j].outcome # "none"
    /\ IF InitRejects(_used_ips, localIPAddr)
       THEN /\ bases' = [bases EXCEPT ![i].outcome = "InitializationError"]
            /\ UNCHANGED <<_used_ips, current>>
       ELSE IF ~binds
       THEN /\ bases' = [bases EXCEPT ![i].outcome = "InitializationError",
                                      ![i].localIPAddr = localIPAddr]
            /\ UNCHANGED <<_used_ips, current>>
       ELSE /\ bases' = [bases EXCEPT ![i].outcome = "returned",
                                      ![i].localIPAddr = localIPAddr,
                                      ![i].this_application = BAC0Application(bases),
                                      ![i]._initialized = TRUE,
                                      ![i]._started = TRUE]
            /\ _used_ips' = _used_ips \cup {localIPAddr}
            /\ current' = IF current = 0 THEN i ELSE current
    /\ UNCHANGED <<router_dnets, path_info, learnedNetworks, routers, pc, op,
                   loc, ret, calls, running, apps, runner, point>>

\* _disconnect up to its suspension: `await stopAllTasks()`.  Nothing in it
\* looks at _started or _stopped: it runs on any Base __init__ has returned.
DisconnectCall(t, i) ==
    /\ Begin(t, "_disconnect")
    /\ bases[i].outcome = "returned"
    /\ loc' = [loc EXCEPT ![t] = [NoLoc EXCEPT !.self = i]]
    /\ calls' = [calls EXCEPT ![t] = <<"stopAllTasks">>]
    /\ pc' = [pc EXCEPT ![t] = "stopAllTasks"]
    /\ ret' = [ret EXCEPT ![t] = NoRet]
    /\ running' = 0
    /\ UNCHANGED <<router_dnets, path_info, learnedNetworks, routers, world>>

\* stopAllTasks has returned: self.this_application.app.close()
DisconnectClose(t) ==
    /\ Scheduled(t)
    /\ pc[t] = "stopAllTasks"
    /\ calls' = [calls EXCEPT ![t] = Append(@, "close")]
    /\ pc' = [pc EXCEPT ![t] = "close"]
    /\ running' = t
    /\ UNCHANGED <<router_dnets, path_info, learnedNetworks, routers, op, loc,
                   ret, world>>

\* Faulty variant: the address stays in Base._used_ips
DisconnectReleaseKeeps(used, localIPAddr) == used

\* Base._used_ips.discard(self.localIPAddr)
DisconnectRelease(used, localIPAddr) == used \ {localIPAddr}

\* self._stopped = True; self._started = False; the address is released and
\* _disconnect returns.
DisconnectFlags(t) ==
    /\ Scheduled(t)
    /\ pc[t] = "close"
    /\ LET i == loc[t].self IN
       /\ bases' = [bases EXCEPT ![i]._stopped = TRUE, ![i]._started = FALSE]
       /\ _used_ips' = DisconnectRelease(_used_ips, bases[i].localIPAddr)
    /\ Finish(t, Ended(NoRet, Return(PyNone, "")))
    /\ UNCHANGED <<router_dnets, path_info, learnedNetworks, routers, op, apps,
                   current, runner, point>>

\* The steps of _disconnect on the Base objects of `is`.
DisconnectStep(t, is) ==
    \/ \E i \in is : DisconnectCall(t, i)
    \/ DisconnectClose(t)
    \/ DisconnectFlags(t)

\* The tasks turn to another Base object: the cache variables are the cache
\* of the application of `current`, routers its _routers; the ones of the
\* object left are kept in apps and bases, the ones of the object taken up
\* are read from there.  Calls in flight stay with their object, so the
\* turn waits for the tasks to be idle.
SwitchSelf(i) ==
    /\ running = 0
    /\ \A t \in Tasks : pc[t] = "idle"
    /\ current # 0
    /\ i # current
    /\ bases[i].outcome = "returned"
    /\ LET kept == [apps EXCEPT ![bases[current].this_application] =
                       [router_dnets |-> router_dnets, path_info |-> path_info,
                        learnedNetworks |-> learnedNetworks]]
           taken == kept[bases[i].this_application]
       IN /\ apps' = kept
          /\ router_dnets' = taken.router_dnets
          /\ path_info' = taken.path_info
          /\ learnedNetworks' = taken.learnedNetworks
    /\ bases' = [bases EXCEPT ![current]._routers = routers]
    /\ routers' = bases[i]._routers
    /\ current' = i
    /\ UNCHANGED <<pc, op, loc, ret, calls, running, _used_ips, runner, point>>

\* run has started its loop, with no bacnet to disconnect on a signal.
LoopRuns == runner = [loop |-> "run_forever", bacnet |-> None]

\* The point as its controller drives it: in service, its value the
\* controller's own, its reliability some fault.
PointInService == point = [outOfService |-> FALSE, presentValue |-> 0, reliability |-> 1]

\* No Base has been constructed.
NoBases ==
    /\ _used_ips = {}
    /\ bases = [i \in Instances |-> NoBase]
    /\ apps = [a \in Instances |-> EmptyApp]
    /\ current = 0

\* One Base has been constructed on IPA, and the tasks call its methods.
OneBase ==
    /\ _used_ips = {IPA}
    /\ bases = [i \in Instances |->
                  IF i = 1
                  THEN [NoBase EXCEPT !.outcome = "returned", !.localIPAddr = IPA,
                                      !.this_application = 1,
                                      !._initialized = TRUE, !._started = TRUE]
                  ELSE NoBase]
    /\ apps = [a \in Instances |-> EmptyApp]
    /\ current = 1


\* ---------------------------------------------------------- specification

Init ==
    /\ router_dnets = <<>>
    /\ path_info = <<>>
    /\ learnedNetworks = {}
    /\ routers = EmptyDict
    /\ pc = [t \in Tasks |-> "idle"]
    /\ op = [t \in Tasks |-> "none"]
    /\ loc = [t \in Tasks |-> NoLoc]
    /\ ret = [t \in Tasks |-> NoRet]
    /\ calls = [t \in Tasks |-> <<>>]
    /\ running = 0
    /\ OneBase
    /\ LoopRuns
    /\ PointInService

\* The steps of use_router, its router_infos drawn from infos.
RegistrarStep(t, infos) ==
    \/ \E ri \in infos : UseRouterCall(t, ri)
    \/ \E r \in {"found", "empty"} : UseRouterProbeReturn(t, r)
    \/ UseRouterUpdate(t)
    \/ UseRouterSetPath(t)
    \/ UseRouterLearn(t)

\* The steps of the discovery primitives, their destination drawn from dests.
DiscoveryStep(t, dests) ==
    \/ \E n \in Networks, d \in dests, g \in BOOLEAN : WhoisCall(t, n, d, g)
    \/ \E nets \in ReportedLists : WhoisReply(t, nets)
    \/ WhoisTimeout(t)
    \/ \E d \in dests : WinnCall(t, d)
    \/ \E n \in ReportedNets : WinnReply(t, n)
    \/ WinnTimeout(t)

\* The steps of init_routing_table, its address drawn from dests.
RoutingInitStep(t, dests) ==
    \/ \E a \in dests : IrtCall(t, a)
    \/ IrtReturn(t)

\* Every operation, from any task.
Next ==
    \E t \in Tasks :
        \/ RegistrarStep(t, RouterInfos)
        \/ DiscoveryStep(t, Destinations)
        \/ RoutingInitStep(t, Destinations)
        \/ RoutingTable(t)

Spec == Init /\ [][Next]_vars

\* Concurrent use_router calls alone, over the wider RegistrarInfos.
NextRegistrar == \E t \in Tasks : RegistrarStep(t, RegistrarInfos)

SpecRegistrar == Init /\ [][NextRegistrar]_vars

\* use_router calls and routing_table accesses.
NextTopology == \E t \in Tasks : RegistrarStep(t, RouterInfos) \/ RoutingTable(t)

SpecTopology == Init /\ [][NextTopology]_vars

\* The discovery primitives alone.
NextDiscovery == \E t \in Tasks : DiscoveryStep(t, DiscoveryDestinations)

SpecDiscovery == Init /\ [][NextDiscovery]_vars

\* The calls that wait for the network, under the loop's scheduling: a
\* timer that is due fires once the loop is free (the engine bounds who_is
\* by its timeout, wait_for bounds the two requests), and a task that holds
\* the loop runs on.  No reply is ever required to arrive.
LiveInfos ==
    { RouterInfo(2, FALSE, NoAddr, "2:5", TRUE, <<10, 11>>, 0, None),
      RouterInfo(2, FALSE, NoAddr, "2.5.x", TRUE, <<10>>, 0, None) }

NextLive ==
    \E t \in Tasks : RegistrarStep(t, LiveInfos) \/ DiscoveryStep(t, {DestNone})

\* The timer of the request task t waits for expires.
TimerExpires(t) ==
    WhoisTimeout(t) \/ WinnTimeout(t) \/ UseRouterProbeReturn(t, "empty")

\* Task t, holding the loop, runs to its next await or to its return.
RunsOn(t) == UseRouterUpdate(t) \/ UseRouterSetPath(t) \/ UseRouterLearn(t)

Fairness == \A t \in Tasks : SF_vars(TimerExpires(t)) /\ WF_vars(RunsOn(t))

SpecLive == Init /\ [][NextLive]_vars /\ Fairness

\* routing_table over any cache the engine may hold: the engine also writes
\* and drops entries on its own, so paths and routers need not agree.
MaxEntries == 2

ViewRouterKeys == {<<None, AddrA>>, <<None, AddrB>>, <<1, AddrA>>}
ViewDnets == {{10}, {10, 11}}
ViewPathKeys == {<<None, 10>>, <<None, 11>>, <<1, 10>>}
ViewPathVals == {<<AddrA, available>>, <<AddrB, available>>, <<AddrB, disconnected>>}

\* The dicts of at most MaxEntries entries with keys ks and values vs.
Dicts(ks, vs) ==
    { d \in UNION { [1..n -> [key : ks, val : vs]] : n \in 0..MaxEntries } :
        \A i, j \in DOMAIN d : i # j => d[i].key # d[j].key }

InitView ==
    /\ router_dnets \in Dicts(ViewRouterKeys, ViewDnets)
    /\ path_info \in Dicts(ViewPathKeys, ViewPathVals)
    /\ learnedNetworks = {}
    /\ routers = EmptyDict
    /\ pc = [t \in Tasks |-> "idle"]
    /\ op = [t \in Tasks |-> "none"]
    /\ loc = [t \in Tasks |-> NoLoc]
    /\ ret = [t \in Tasks |-> NoRet]
    /\ calls = [t \in Tasks |-> <<>>]
    /\ running = 0
    /\ OneBase
    /\ LoopRuns
    /\ PointInService

NextView == \E t \in Tasks : RoutingTable(t)

SpecView == InitView /\ [][NextView]_vars

\* routing_table accessed when self._routers still holds the view of an
\* earlier access, built from a cache that has changed since.
PureRouterKeys == ViewRouterKeys
PurePathKeys == {<<None, 10>>, <<None, 11>>}
PurePathVals == {<<AddrA, available>>, <<AddrB, available>>}

EarlierViews ==
    { RoutingTableOf(rd, pi).routers :
        rd \in {d \in Dicts(PureRouterKeys, {{11}}) : Len(d) <= 1},
        pi \in {d \in Dicts(PurePathKeys, PurePathVals) : Len(d) <= 1} }

InitPure ==
    /\ router_dnets \in Dicts(PureRouterKeys, {{10}})
    /\ path_info \in Dicts(PurePathKeys, PurePathVals)
    /\ learnedNetworks = {}
    /\ routers \in EarlierViews
    /\ pc = [t \in Tasks |-> "idle"]
    /\ op = [t \in Tasks |-> "none"]
    /\ loc = [t \in Tasks |-> NoLoc]
    /\ ret = [t \in Tasks |-> NoRet]
    /\ calls = [t \in Tasks |-> <<>>]
    /\ running = 0
    /\ OneBase
    /\ LoopRuns
    /\ PointInService

SpecPure == InitPure /\ [][NextView]_vars

\* The operations that take an address, on a cache use_router may have filled.
NextInputs ==
    \E t \in Tasks :
        \/ RegistrarStep(t, LiveInfos)
        \/ \E n \in Networks, d \in DiscoveryDestinations, g \in BOOLEAN : WhoisCall(t, n, d, g)
        \/ \E nets \in ReportedLists : WhoisReply(t, nets)
        \/ WhoisTimeout(t)
        \/ RoutingInitStep(t, DiscoveryDestinations)

SpecInputs == Init /\ [][NextInputs]_vars

\* A session of the application: every operation of the layer, from any
\* task, with the router_infos that make routers compete for a network.
SessionInfos ==
    { RouterInfo(2, FALSE, NoAddr, "2:5", TRUE, <<10, 11>>, 0, None),
      RouterInfo(3, FALSE, NoAddr, "3:7", TRUE, <<10>>, 0, None) }

\* No destination, and one that is no address: the call ends in an error.
SessionDestinations == {DestNone, DestStr("2.5.x")}

NextSession ==
    \E t \in Tasks :
        \/ RegistrarStep(t, SessionInfos)
        \/ DiscoveryStep(t, SessionDestinations)
        \/ RoutingInitStep(t, SessionDestinations)
        \/ RoutingTable(t)

SpecSession == Init /\ [][NextSession]_vars

\* use_router on a cache that holds the engine's own feedback: a router whose
\* path the engine has marked disconnected.
InitFeedback ==
    /\ router_dnets = <<[key |-> <<None, AddrB>>, val |-> {10}]>>
    /\ path_info = <<[key |-> <<None, 10>>, val |-> <<AddrB, disconnected>>]>>
    /\ learnedNetworks = {}
    /\ routers = EmptyDict
    /\ pc = [t \in Tasks |-> "idle"]
    /\ op = [t \in Tasks |-> "none"]
    /\ loc = [t \in Tasks |-> NoLoc]
    /\ ret = [t \in Tasks |-> NoRet]
    /\ calls = [t \in Tasks |-> <<>>]
    /\ running = 0
    /\ OneBase
    /\ LoopRuns
    /\ PointInService

NextFeedback == \E t \in Tasks : RegistrarStep(t, SessionInfos)

SpecFeedback == InitFeedback /\ [][NextFeedback]_vars

\* use_router for one router address known under two source networks, and
\* routing_table accesses.
CollisionInfos ==
    { RouterInfo(2, FALSE, NoAddr, "2:5", TRUE, <<10, 11>>, 0, None),
      RouterInfo(3, FALSE, NoAddr, "2:0x05", TRUE, <<11, 11>>, 0, 1) }

NextCollision ==
    \E t \in Tasks : RegistrarStep(t, CollisionInfos) \/ RoutingTable(t)

SpecCollision == Init /\ [][NextCollision]_vars

\* use_router called on the empty cache only, one call at a time, and
\* routing_table accesses: the router_infos on offer in the current state.
ScenarioInfos ==
    IF cache = <<<<>>, <<>>, {}>> /\ \A u \in Tasks : pc[u] = "idle"
    THEN RegistrarInfos
    ELSE {}

NextScenario ==
    \E t \in Tasks : RegistrarStep(t, ScenarioInfos) \/ RoutingTable(t)

SpecScenario == Init /\ [][NextScenario]_vars

\* ------------------------------------------------------------------ claims

\* The step in which task t's use_router returns after its commit.
UseRouterCompletes(t) ==
    /\ op[t] = "use_router"
    /\ ret[t].event = "found"
    /\ pc[t] \in {"update", "learn"}
    /\ pc'[t] = "idle"

\* Router (snet, address) is registered for dnets in the cache (rd, pi, ln).
Registered(rd, pi, ln, address, dnets, snet) ==
    /\ <<snet, address>> \in Keys(rd)
    /\ SeqToSet(dnets) \subseteq Get(rd, <<snet, address>>)
    /\ \A d \in SeqToSet(dnets) :
        /\ <<snet, d>> \in Keys(pi)
        /\ Get(pi, <<snet, d>>) = <<address, available>>
        /\ d \in ln

\* C1: when a use_router call whose probe found the router completes, its
\* dnets are among router_dnets[(snet, address)], every one of them has
\* path_info[(snet, d)] = (address, available) and is in the learned networks.
C1_UseRouterRegisters ==
    [][\A t \in Tasks :
          UseRouterCompletes(t) =>
            Registered(router_dnets', path_info', learnedNetworks',
                       loc[t].address, loc[t].dnets, loc[t].snet)]_vars

\* A call for ("2:5", [10, 11]) has completed and its registration stands.
C1_Witness ==
    \E t \in Tasks :
        /\ op[t] = "use_router" /\ pc[t] = "idle"
        /\ ret[t].event = "found" /\ ret[t].status = "returned"
        /\ Registered(router_dnets, path_info, learnedNetworks, AddrA, <<10, 11>>, None)

\* C2: a use_router call whose probe found nothing ends in that very step:
\* it returns None without raising, has sent no update_router_references,
\* and leaves router_dnets, path_info and the learned networks as they were.
C2_FailedProbeIsNoOp ==
    [][\A t \in Tasks :
          (op[t] = "use_router" /\ pc[t] # "idle" /\ ret'[t].event = "empty") =>
            /\ pc'[t] = "idle"
            /\ ret'[t].status = "returned" /\ ret'[t].val = PyNone
            /\ "update_router_references" \notin SeqToSet(calls[t])
            /\ cache' = cache]_vars

\* A call has ended on an empty probe while the cache holds a router.
C2_Witness ==
    \E t \in Tasks :
        /\ op[t] = "use_router" /\ pc[t] = "idle"
        /\ ret[t].event = "empty" /\ ret[t].status = "returned"
        /\ ret[t].log = "warning"
        /\ router_dnets # <<>> /\ path_info # <<>>

\* The cache (rd, pi, ln) holds everything a commit of (address, dnets, snet)
\* writes: the state a completed call leaves behind.
CommittedIn(rd, pi, ln, address, dnets, snet) ==
    /\ <<snet, address>> \in Keys(rd)
    /\ Get(rd, <<snet, address>>) = SeqToSet(dnets)
    /\ \A d \in SeqToSet(dnets) :
        /\ <<snet, d>> \in Keys(pi)
        /\ Get(pi, <<snet, d>>) = <<address, available>>
        /\ d \in ln

Committed(address, dnets, snet) ==
    CommittedIn(router_dnets, path_info, learnedNetworks, address, dnets, snet)

\* Task t is between the return of its probe and the return of use_router.
InCommit(t) == pc[t] \in {"update", "set_path", "learn"}

\* C3: use_router is idempotent.  A completed call leaves the cache Committed
\* for its arguments, and every step of a commit that starts from a cache
\* already Committed for the same arguments leaves router_dnets, path_info
\* and the learned networks as they are: the second of two calls in sequence
\* changes nothing.
C3_UseRouterIdempotent ==
    [][\A t \in Tasks :
          /\ UseRouterCompletes(t) =>
               CommittedIn(router_dnets', path_info', learnedNetworks',
                           loc[t].address, loc[t].dnets, loc[t].snet)
          /\ (InCommit(t) /\ Committed(loc[t].address, loc[t].dnets, loc[t].snet)) =>
               cache' = cache]_vars

\* A second call for the same router, dnets and snet is about to commit on a
\* cache that an earlier call has left Committed, with another router's path
\* written before it.
C3_Witness ==
    \E t \in Tasks :
        /\ pc[t] = "update"
        /\ loc[t].address = AddrA /\ loc[t].dnets = <<10, 11>>
        /\ Committed(AddrA, <<10, 11>>, None)
        /\ Len(router_dnets) = 2

\* Task t's use_router has made its first cache write and not yet its last.
MidCommit(t) == pc[t] \in {"set_path", "learn"}

\* C4: between the first and the last cache write of one use_router call
\* every step is a step of that call: no other task moves (no other
\* use_router resumes, writes or starts) and no routing_table is built.
C4_CommitIsAtomic ==
    [][\A t \in Tasks :
          MidCommit(t) =>
            /\ \A u \in Tasks \ {t} :
                 pc'[u] = pc[u] /\ op'[u] = op[u] /\ ret'[u] = ret[u] /\ loc'[u] = loc[u]
            /\ routers' = routers
            /\ pc'[t] # pc[t]]_vars

\* A call is between its two path writes while another call waits for its
\* probe and a routing_table has been built before.
C4_Witness ==
    \E t, u \in Tasks :
        /\ t # u
        /\ pc[t] = "set_path" /\ loc[t].i = 2
        /\ pc[u] = "probe"
        /\ routers # EmptyDict

\* C5: last write wins.  The call that resumes from its probe writes its own
\* dnets under (snet, address) before any other task moves, it changes no
\* other router's entry, and router_dnets changes in no other step: the set
\* recorded for a router is the one of the call that resumed last.
C5_LastWriteWins ==
    [][/\ \A t \in Tasks :
            pc[t] = "update" =>
              /\ \A u \in Tasks \ {t} : pc'[u] = pc[u]
              /\ <<loc[t].snet, loc[t].address>> \in Keys(router_dnets')
              /\ Get(router_dnets', <<loc[t].snet, loc[t].address>>) = SeqToSet(loc[t].dnets)
              /\ \A k \in Keys(router_dnets) \ {<<loc[t].snet, loc[t].address>>} :
                   k \in Keys(router_dnets') /\ Get(router_dnets', k) = Get(router_dnets, k)
       /\ router_dnets' # router_dnets => \E t \in Tasks : pc[t] = "update"]_vars

\* Two calls for router (None, 2:5) ran together; the one for [10] resumed
\* first and has written {10}, the one for [10, 11] has resumed after it and
\* is about to write.
C5_Witness ==
    \E t, u \in Tasks :
        /\ t # u
        /\ pc[t] = "update" /\ loc[t].address = AddrA /\ loc[t].snet = None
        /\ loc[t].dnets = <<10, 11>>
        /\ op[u] = "use_router" /\ pc[u] = "idle" /\ ret[u].event = "found"
        /\ <<None, AddrA>> \in Keys(router_dnets)
        /\ Get(router_dnets, <<None, AddrA>>) = {10}
        /\ 11 \notin learnedNetworks

\* C6: every call of a discovery primitive returns: a task that is inside
\* whois_router_to_network, what_is_network_number or use_router is idle
\* again later, whether or not a reply ever arrives.
C6_EveryCallReturns ==
    \A t \in Tasks : (pc[t] # "idle") ~> (pc[t] = "idle")

\* Both tasks wait for the network at once, one for a router probe.
C6_Witness ==
    \E t, u \in Tasks :
        /\ pc[t] = "probe" /\ pc[u] \in {"wirtn", "winn"}
        /\ ret[t].status = "none"

\* C7: a whois_router_to_network call whose request timed out has returned
\* the empty list and has raised nothing.
C7_WhoisTimeoutReturnsEmpty ==
    \A t \in Tasks :
        (op[t] = "whois_router_to_network" /\ ret[t].event = "timeout") =>
            /\ pc[t] = "idle"
            /\ ret[t].status = "returned" /\ ret[t].exc = ""
            /\ ret[t].val = PyList(<<>>)

\* A call has timed out and returned [] while a globally broadcast request
\* of the other task is still waiting.
C7_Witness ==
    \E t, u \in Tasks :
        /\ op[t] = "whois_router_to_network" /\ ret[t].event = "timeout"
        /\ ret[t].val = PyList(<<>>) /\ ret[t].log = "warning"
        /\ pc[u] = "wirtn" /\ loc[u].dest = GlobalBroadcast /\ loc[u].network = 11

\* C8: a what_is_network_number call whose request timed out has returned
\* None and raised nothing; one whose request was answered has returned the
\* very network number the engine reported.
C8_WinnTimeoutNoneReplyUnchanged ==
    \A t \in Tasks :
        op[t] = "what_is_network_number" =>
            /\ ret[t].event = "timeout" =>
                 ret[t].status = "returned" /\ ret[t].exc = "" /\ ret[t].val = PyNone
            /\ ret[t].event = "reply" =>
                 ret[t].status = "returned" /\ ret[t].val = ret[t].data

\* One call has timed out and one has been answered with network 11.
C8_Witness ==
    \E t, u \in Tasks :
        /\ op[t] = "what_is_network_number" /\ ret[t].event = "timeout"
        /\ ret[t].val = PyNone /\ ret[t].log = "warning"
        /\ op[u] = "what_is_network_number" /\ ret[u].event = "reply"
        /\ ret[u].val = PyInt(11)

\* Some path of pi names a router whose address is the address of no key
\* of rd.
Dangling(rd, pi) ==
    \E i \in DOMAIN pi : \A j \in DOMAIN rd : rd[j].key[2] # pi[i].val[1]

\* C9: a routing_table access on a cache with a dangling path raises: it
\* does not return a mapping, whole or partial.
C9_DanglingPathRaises ==
    [][\A t \in Tasks :
          (RoutingTable(t) /\ Dangling(router_dnets, path_info)) =>
            /\ ret'[t].status = "raised" /\ ret'[t].exc = "KeyError"
            /\ ret'[t].val = PyNone]_vars

\* An access has raised on a cache whose first path has its router and whose
\* second path is dangling: the mapping built so far is not returned.
C9_Witness ==
    \E t \in Tasks :
        /\ op[t] = "routing_table" /\ ret[t].status = "raised"
        /\ Len(path_info) = 2 /\ Len(router_dnets) = 1
        /\ ~Dangling(router_dnets, <<path_info[1]>>)
        /\ Dangling(router_dnets, <<path_info[2]>>)
        /\ routers # EmptyDict

\* dnets without its repetitions, in the order of first occurrence.
RECURSIVE Distinct(_)
Distinct(l) ==
    IF l = <<>> THEN <<>>
    ELSE LET r == Distinct(SubSeq(l, 1, Len(l) - 1))
         IN IF l[Len(l)] \in SeqToSet(r) THEN r ELSE Append(r, l[Len(l)])

\* C10: when the one use_router call on the empty cache completes after a
\* successful probe, routing_table is a mapping whose record under
\* str(address) has source_network snet, destination_networks the set of
\* dnets, and as its path exactly one ((snet, d), available) per d of dnets.
C10_RegisteredRouterInTable ==
    [][\A t \in Tasks :
          UseRouterCompletes(t) =>
            LET view == RoutingTableOf(router_dnets', path_info')
                key == AddressStr(loc[t].address)
                ds == Distinct(loc[t].dnets)
            IN /\ ~view.raised
               /\ key \in DOMAIN view.routers
               /\ view.routers[key].source_network = loc[t].snet
               /\ view.routers[key].address = loc[t].address
               /\ view.routers[key].destination_networks = SeqToSet(loc[t].dnets)
               /\ view.routers[key].path =
                    [i \in 1..Len(ds) |-> <<<<loc[t].snet, ds[i]>>, available>>]]_vars

\* The scenario of the specification: after use_router(("2:5", [10, 11]))
\* a routing_table access has built the record of "2:5".
C10_Witness ==
    \E t, u \in Tasks :
        /\ op[t] = "use_router" /\ pc[t] = "idle" /\ ret[t].event = "found"
        /\ op[u] = "routing_table" /\ ret[u].status = "returned"
        /\ DOMAIN routers = {"2:5"}
        /\ routers["2:5"] =
             Router(None, AddrA, {10, 11},
                    << <<<<None, 10>>, available>>, <<<<None, 11>>, available>> >>)
        /\ learnedNetworks = {10, 11}

\* How an access ended, apart from the mapping: returned or raised, and what.
Outcome(r) == <<r.status, r.exc, r.val>>

\* C11: routing_table depends on the cache alone.  Whatever view an earlier
\* access left behind, an access yields the mapping and the outcome that
\* router_dnets and path_info determine; and an access made after another
\* one on the same cache yields the same mapping and the same outcome.
C11_RoutingTableIsPure ==
    [][\A t \in Tasks :
          RoutingTable(t) =>
            /\ routers' = RoutingTableOf(router_dnets, path_info).routers
            /\ ret'[t].status =
                 IF RoutingTableOf(router_dnets, path_info).raised
                 THEN "raised" ELSE "returned"
            /\ \A u \in Tasks :
                 op[u] = "routing_table" =>
                   routers' = routers /\ Outcome(ret'[t]) = Outcome(ret[u])]_vars

\* Two accesses have been made on a cache other than the one the earlier
\* view came from: the view now holds none of that view's routers.
C11_Witness ==
    /\ \A t \in Tasks : op[t] = "routing_table" /\ ret[t].status = "returned"
    /\ router_dnets = <<[key |-> <<None, AddrA>>, val |-> {10}]>>
    /\ Len(path_info) = 1
    /\ DOMAIN routers = {"2:5"}
    /\ routers["2:5"].destination_networks = {10}
    /\ Len(routers["2:5"].path) = 1

\* The destination networks named by the path entries of record r.
PathDnets(r) == {r.path[i][1][2] : i \in DOMAIN r.path}

\* C12 (as claimed): in every record routing_table has built, the
\* destination_networks contain every destination network of the record's
\* path entries.
C12_DnetsCoverPaths ==
    \A k \in DOMAIN routers : PathDnets(routers[k]) \subseteq routers[k].destination_networks

\* The call of task t raises in the step that makes it: nothing has been
\* awaited, so no probe and no engine request has been issued, and the cache
\* is as it was.
FailsFast(t) ==
    /\ pc'[t] = "idle"
    /\ ret'[t].status = "raised" /\ ret'[t].exc = "ValueError"
    /\ ret'[t].event = ""
    /\ cache' = cache

\* A string no Address can be made of.
Unparseable(text) == ParseAddress(text) = NoAddr

\* C13 (as claimed): every use_router call with an unparseable address, and
\* every whois_router_to_network or init_routing_table call with an
\* unparseable destination, fails fast.
C13_InvalidAddressFailsFast ==
    [][\A t \in Tasks :
          /\ \A ri \in LiveInfos :
               (UseRouterCall(t, ri) /\ ~ri.addr_is_obj /\ Unparseable(ri.addr_str))
                 => FailsFast(t)
          /\ \A d \in DiscoveryDestinations :
               (d.kind = "str" /\ Unparseable(d.text)) =>
                 /\ IrtCall(t, d) => FailsFast(t)
                 /\ \A n \in Networks, g \in BOOLEAN :
                      WhoisCall(t, n, d, g) => FailsFast(t)]_vars

\* C13 (amended): the same, for whois_router_to_network only when the
\* destination is not the empty string, which the call takes as no destination.
C13_NonEmptyInvalidAddressFailsFast ==
    [][\A t \in Tasks :
          /\ \A ri \in LiveInfos :
               (UseRouterCall(t, ri) /\ ~ri.addr_is_obj /\ Unparseable(ri.addr_str))
                 => FailsFast(t)
          /\ \A d \in DiscoveryDestinations :
               (d.kind = "str" /\ Unparseable(d.text)) =>
                 /\ IrtCall(t, d) => FailsFast(t)
                 /\ \A n \in Networks, g \in BOOLEAN :
                      (d.text # "" /\ WhoisCall(t, n, d, g)) => FailsFast(t)]_vars

\* All three kinds of call have raised on the filled cache: the tasks'
\* last calls, one use_router and one of the two others.
C13_Witness ==
    \E t, u \in Tasks :
        /\ op[t] = "use_router" /\ ret[t].exc = "ValueError"
        /\ op[u] \in {"whois_router_to_network", "init_routing_table"}
        /\ ret[u].exc = "ValueError"
        /\ Len(path_info) = 2

\* C14: the learned networks only grow: a network in the set before a step
\* of any operation is in it after the step.
C14_LearnedNetworksGrow ==
    [][learnedNetworks \subseteq learnedNetworks']_vars

\* Network 10 was learned through one router and network 11 through a later
\* call, with discovery and routing_table run in between: both are learned.
C14_Witness ==
    \E t, u \in Tasks :
        /\ t # u
        /\ learnedNetworks = {10, 11}
        /\ Len(router_dnets) = 2 /\ router_dnets[1].key[2] = AddrB
        /\ op[t] = "routing_table" /\ ret[t].status = "returned"
        /\ op[u] = "use_router" /\ pc[u] = "idle" /\ ret[u].event = "found"

\* C15: a step adds networks to the learned networks only as a step of a
\* use_router call whose probe found the router, and only networks that the
\* call lists in its dnets.
C15_LearnedOnlyByConfirmedRouter ==
    [][learnedNetworks' # learnedNetworks =>
         \E t \in Tasks :
            /\ op[t] = "use_router" /\ pc[t] = "learn"
            /\ ret[t].event = "found"
            /\ learnedNetworks' \ learnedNetworks \subseteq SeqToSet(loc[t].dnets)]_vars

\* A registration has failed on an empty probe and discovery has reported
\* network 11, yet only network 10, which a confirmed router serves, is learned.
C15_Witness ==
    \E t, u \in Tasks :
        /\ op[t] = "use_router" /\ pc[t] = "idle" /\ ret[t].event = "empty"
        /\ op[u] = "what_is_network_number" /\ ret[u].val = PyInt(11)
        /\ learnedNetworks = {10}
        /\ Keys(router_dnets) = {<<None, AddrB>>}

\* C16: no step drops a key of router_dnets or of path_info, and the value
\* of a path (snet, dnet) changes only in the step in which a use_router
\* call writes that very path, the path's router then being the call's
\* address.
C16_EntriesNeverDropped ==
    [][/\ Keys(router_dnets) \subseteq Keys(router_dnets')
       /\ \A k \in Keys(path_info) :
            /\ k \in Keys(path_info')
            /\ Get(path_info', k) # Get(path_info, k) =>
                 \E t \in Tasks :
                    /\ op[t] = "use_router" /\ pc[t] = "set_path"
                    /\ k = <<loc[t].snet, loc[t].dnets[loc[t].i]>>
                    /\ Get(path_info', k)[1] = loc[t].address]_vars

\* The path to network 10, first owned by router 3:7, is now owned by
\* router 2:5, whose call is still writing; both routers are still registered.
C16_Witness ==
    \E t \in Tasks :
        /\ pc[t] = "learn" /\ loc[t].address = AddrA /\ loc[t].i = 1
        /\ Len(router_dnets) = 2 /\ router_dnets[1].key = <<None, AddrB>>
        /\ path_info = <<[key |-> <<None, 10>>, val |-> <<AddrA, available>>]>>

\* The operations that only read: the two requests and routing_table.
ReadOnlyOps == {"whois_router_to_network", "what_is_network_number", "routing_table"}

\* The step is a step of a read-only operation of task t: its call, the
\* reply, the timeout or the error that ends it, or a routing_table access.
ReadOnlyStep(t) ==
    \/ pc[t] \in {"wirtn", "winn"} /\ pc'[t] # pc[t]
    \/ /\ pc[t] = "idle" /\ op'[t] \in ReadOnlyOps
       /\ <<pc'[t], op'[t], ret'[t]>> # <<pc[t], op[t], ret[t]>>

\* C17: every step of whois_router_to_network, what_is_network_number and
\* routing_table leaves router_dnets, path_info and the learned networks as
\* they are, and whenever one of them changes the step is a step of a
\* use_router call that is past its probe.
C17_OnlyUseRouterWrites ==
    [][/\ \A t \in Tasks : ReadOnlyStep(t) => cache' = cache
       /\ cache' # cache =>
            \E t \in Tasks : op[t] = "use_router" /\ InCommit(t) /\ pc'[t] # pc[t]]_vars

\* On a filled cache one request has ended in an error and one has timed out
\* after a routing_table access, and the cache is what use_router left.
C17_Witness ==
    \E t, u \in Tasks :
        /\ op[t] = "whois_router_to_network" /\ ret[t].status = "raised"
        /\ op[u] = "what_is_network_number" /\ ret[u].event = "timeout"
        /\ routers # EmptyDict
        /\ Keys(router_dnets) = {<<None, AddrA>>}
        /\ Len(path_info) = 2 /\ learnedNetworks = {10, 11}

\* The engine requests of a use_router call so far are in the order of the
\* code: the probe, the router-reference update, then the path writes.
OrderedCalls(c) ==
    /\ Len(c) >= 1 => c[1] = "who_is"
    /\ Len(c) >= 2 => c[2] = "update_router_references"
    /\ \A i \in DOMAIN c : i >= 3 => c[i] = "set_path_info"

\* C18: a use_router call issues its requests in order, and writes in
\* order: router_dnets only once its probe has returned a response and
\* before any path, a path only after the router-reference update, a learned
\* network only after its path; nothing is written before the probe returned.
C18_UseRouterStepsInOrder ==
    [][/\ \A t \in Tasks : op[t] = "use_router" => OrderedCalls(calls[t])
       /\ router_dnets' # router_dnets =>
            \E t \in Tasks :
               /\ pc[t] = "update" /\ ret[t].event = "found"
               /\ calls[t] = <<"who_is">>
       /\ path_info' # path_info =>
            \E t \in Tasks :
               /\ pc[t] = "set_path" /\ ret[t].event = "found"
               /\ Len(calls[t]) >= 2 /\ calls[t][2] = "update_router_references"
               /\ <<loc[t].snet, loc[t].address>> \in Keys(router_dnets)
       /\ learnedNetworks' # learnedNetworks =>
            \E t \in Tasks :
               /\ pc[t] = "learn" /\ ret[t].event = "found"
               /\ \A d \in learnedNetworks' \ learnedNetworks :
                    /\ <<loc[t].snet, d>> \in Keys(path_info)
                    /\ Get(path_info, <<loc[t].snet, d>>)[1] = loc[t].address]_vars

\* A call is about to learn its second network while another call still
\* waits for its probe and has written nothing.
C18_Witness ==
    \E t, u \in Tasks :
        /\ pc[t] = "learn" /\ loc[t].i = 2
        /\ calls[t] = <<"who_is", "update_router_references",
                        "set_path_info", "set_path_info">>
        /\ pc[u] = "probe" /\ loc[u].address = AddrB
        /\ <<None, AddrB>> \notin Keys(router_dnets)

\* C19: every path_info value a step writes (a new key, or a changed value)
\* has status available.
C19_WritesOnlyAvailable ==
    [][\A k \in Keys(path_info') :
          (k \notin Keys(path_info) \/ Get(path_info', k) # Get(path_info, k)) =>
            Get(path_info', k)[2] = available]_vars

\* use_router for 2:5 has replaced the path the engine had marked
\* disconnected for 3:7 and is writing on.
C19_Witness ==
    \E t \in Tasks :
        /\ pc[t] = "set_path" /\ loc[t].address = AddrA /\ loc[t].i = 2
        /\ path_info = <<[key |-> <<None, 10>>, val |-> <<AddrA, available>>]>>

\* Entry j of rd is the last one, in iteration order, for its router address.
LastForAddress(rd, j) ==
    \A i \in DOMAIN rd : rd[i].key[2] = rd[j].key[2] => i <= j

\* C20: routing_table builds one record per router address, that of the
\* address's last router_dnets entry in iteration order: its source_network
\* and its destination_networks, and nothing of an earlier entry's.
C20_LastEntryWins ==
    [][\A t \in Tasks :
          RoutingTable(t) =>
            /\ DOMAIN routers' = {AddressStr(router_dnets[j].key[2]) : j \in DOMAIN router_dnets}
            /\ \A j \in DOMAIN router_dnets :
                 LastForAddress(router_dnets, j) =>
                   LET r == routers'[AddressStr(router_dnets[j].key[2])]
                   IN /\ r.source_network = router_dnets[j].key[1]
                      /\ r.address = router_dnets[j].key[2]
                      /\ r.destination_networks = router_dnets[j].val]_vars

\* router_dnets holds 2:5 under source network None with {10, 11} and then
\* under source network 1 with {10}; the mapping returned has the one record
\* "2:5" with source network 1 and {10}.
C20_Witness ==
    \E t \in Tasks :
        /\ op[t] = "routing_table" /\ ret[t].status = "returned"
        /\ router_dnets = <<[key |-> <<None, AddrA>>, val |-> {10, 11}],
                            [key |-> <<1, AddrA>>, val |-> {10}]>>
        /\ DOMAIN routers = {"2:5"}
        /\ routers["2:5"].source_network = 1
        /\ routers["2:5"].destination_networks = {10}

\* ------------------------------------------------------ several Base objects

\* Nothing has been constructed yet; the tasks are idle.
InitProcess ==
    /\ router_dnets = <<>>
    /\ path_info = <<>>
    /\ learnedNetworks = {}
    /\ routers = EmptyDict
    /\ pc = [t \in Tasks |-> "idle"]
    /\ op = [t \in Tasks |-> "none"]
    /\ loc = [t \in Tasks |-> NoLoc]
    /\ ret = [t \in Tasks |-> NoRet]
    /\ calls = [t \in Tasks |-> <<>>]
    /\ running = 0
    /\ NoBases
    /\ LoopRuns
    /\ PointInService

\* Base objects are constructed, and one task calls use_router and
\* routing_table on one of them after the other.
InstanceInfos ==
    { RouterInfo(2, FALSE, NoAddr, "2:5", TRUE, <<10>>, 0, None),
      RouterInfo(2, FALSE, NoAddr, "3:7", TRUE, <<11>>, 0, None) }

NextInstances ==
    \/ \E i \in Instances, ip \in {IPA, IPB} : Construct(i, ip, TRUE)
    \/ \E i \in Instances : SwitchSelf(i)
    \/ RegistrarStep(1, InstanceInfos)
    \/ RoutingTable(1)

SpecInstances == InitProcess /\ [][NextInstances]_vars

\* What Base object i holds: the cache and learned networks of its
\* application, and its _routers.
InstanceState(i) ==
    LET a == bases[i].this_application
        app == IF current # 0 /\ a = bases[current].this_application
               THEN [router_dnets |-> router_dnets, path_info |-> path_info,
                     learnedNetworks |-> learnedNetworks]
               ELSE apps[a]
    IN [router_dnets |-> app.router_dnets, path_info |-> app.path_info,
        learnedNetworks |-> app.learnedNetworks,
        routing_table |-> RoutingTableOf(app.router_dnets, app.path_info)]

\* C21: two application instances never cross-contaminate: a step of a call
\* made on one Base object (use_router, routing_table) leaves router_dnets,
\* path_info, the learned networks and the routing_table result of every
\* other Base object as they were.
C21_InstancesIsolated ==
    [][\A i \in Instances :
          bases[i].outcome = "returned" /\ i # current
          => InstanceState(i)' = InstanceState(i)]_vars

\* Two Base objects hold different routers: the one use_router registered
\* on each.
C21_Witness ==
    /\ current = 2
    /\ bases[1].outcome = "returned"
    /\ op[1] = "use_router" /\ ret[1].status = "returned"
    /\ InstanceState(1).router_dnets # <<>>
    /\ router_dnets # <<>>
    /\ Keys(router_dnets) # Keys(InstanceState(1).router_dnets)

\* The engine request each operation sends: the probe, for use_router.
RequestOf(o) ==
    CASE o = "whois_router_to_network" -> "who_is_router_to_network"
      [] o = "what_is_network_number" -> "what_is_network_number"
      [] o = "init_routing_table" -> "initialize_routing_table"
      [] o = "use_router" -> "who_is"
      [] OTHER -> ""

\* How many times the call of task t has issued request r so far.
Issued(t, r) == Cardinality({k \in DOMAIN calls[t] : calls[t][k] = r})

Named(d) == IF d.kind = "Address" THEN d.obj ELSE ParseAddress(d.text)

\* C23: what_is_network_number sends its request to the given destination
\* when one is specified, and as a local broadcast (no destination) only
\* when none is.
C23_WinnSendsToDestination ==
    [][\A t \in Tasks, d \in DiscoveryDestinations :
          WinnCall(t, d) =>
              /\ d.kind = "None" => loc'[t].dest = NoDest
              /\ (d.kind # "None" /\ Named(d) # NoAddr)
                   => loc'[t].dest = DirectedTo(Named(d))]_vars

\* C24: whois_router_to_network chooses the destination of its request: a
\* given destination is the directed target, even when global_broadcast is
\* true; with no destination and global_broadcast true the request is a
\* global broadcast; with neither it is a local broadcast (None).  The
\* network argument is passed on unchanged.
C24_WhoisDestinationChoice ==
    [][\A t \in Tasks, n \in Networks, d \in DiscoveryDestinations, g \in BOOLEAN :
          (WhoisCall(t, n, d, g) /\ (d.kind = "None" \/ Named(d) # NoAddr)) =>
              /\ loc'[t].network = n
              /\ loc'[t].dest = IF d.kind # "None" THEN DirectedTo(Named(d))
                                ELSE IF g THEN GlobalBroadcast ELSE NoDest]_vars

\* ---------------------------------------------------- use_router coercions

\* Pairs of router_infos that mean the same: a 2-tuple and the 3-tuple with
\* None, a bare network number and the list of it, an address string and the
\* Address it parses to.
CoercionPairs ==
    { << RouterInfo(2, FALSE, NoAddr, "2:5", TRUE, <<10, 11>>, 0, None),
         RouterInfo(3, FALSE, NoAddr, "2:5", TRUE, <<10, 11>>, 0, None) >>,
      << RouterInfo(2, FALSE, NoAddr, "3:7", FALSE, <<>>, 10, None),
         RouterInfo(2, FALSE, NoAddr, "3:7", TRUE, <<10>>, 0, None) >>,
      << RouterInfo(3, FALSE, NoAddr, "2:5", TRUE, <<11>>, 0, 1),
         RouterInfo(3, TRUE, AddrA, "", TRUE, <<11>>, 0, 1) >> }

CoercionInfos == {p[1] : p \in CoercionPairs} \cup {p[2] : p \in CoercionPairs}

NextCoercion == \E t \in Tasks : RegistrarStep(t, CoercionInfos)

SpecCoercion == Init /\ [][NextCoercion]_vars

\* C25: the coercions of use_router keep the meaning of its input: a call
\* with either input of a pair above takes the same first step, to the same
\* state (the same probe sent, the same address, dnets and snet to commit),
\* so every request that follows and the cache the call leaves are the same.
C25_CoercionKeepsMeaning ==
    [][\A t \in Tasks, p \in CoercionPairs :
          UseRouterCall(t, p[1]) <=> UseRouterCall(t, p[2])]_vars

\* A router given by a bare network number and one given with a source
\* network have been registered.
C25_Witness ==
    /\ \E t \in Tasks : op[t] = "use_router" /\ pc[t] = "idle" /\ ret[t].event = "found"
    /\ <<None, AddrB>> \in Keys(router_dnets)
    /\ Get(router_dnets, <<None, AddrB>>) = {10}
    /\ <<1, AddrA>> \in Keys(router_dnets)
    /\ <<1, 11>> \in Keys(path_info)

\* Where the path entries of mapping r are: (record key, position in its path).
PathEntries(r) ==
    UNION { {<<a, j>> : j \in DOMAIN r[a].path} : a \in DOMAIN r }

\* C26: when routing_table returns without error, every path_info key is a
\* path entry of exactly one record, the one filed under str of the path's
\* router address, and the records hold as many path entries as path_info
\* has entries.
C26_EveryPathInOneRecord ==
    [][\A t \in Tasks :
          (RoutingTable(t) /\ ret'[t].status = "returned") =>
              LET r == routers' IN
              /\ \A k \in Keys(path_info) :
                   /\ Cardinality({e \in PathEntries(r) : r[e[1]].path[e[2]][1] = k}) = 1
                   /\ \A e \in PathEntries(r) :
                        r[e[1]].path[e[2]][1] = k
                          => e[1] = AddressStr(Get(path_info, k)[1])
              /\ Cardinality(PathEntries(r)) = Len(path_info)]_vars

\* An access has returned a mapping of two routers with one path each.
C26_Witness ==
    \E t \in Tasks :
        /\ op[t] = "routing_table" /\ ret[t].status = "returned"
        /\ Len(path_info) = 2
        /\ DOMAIN routers = {AddressStr(AddrA), AddressStr(AddrB)}
        /\ \A a \in DOMAIN routers : Len(routers[a].path) = 1

\* C27: in every record routing_table returns, each path entry
\* ((snet, dnet), status) has the source network of its record, also when
\* one address is registered under two source networks.
C27_PathsOfOwnSourceNetwork ==
    [][\A t \in Tasks :
          (RoutingTable(t) /\ ret'[t].status = "returned") =>
              \A a \in DOMAIN routers' :
                  \A j \in DOMAIN routers'[a].path :
                      routers'[a].path[j][1][1] = routers'[a].source_network]_vars

\* ------------------------------------------------------------ Base lifecycle

\* Base objects are constructed and disconnected, in any order, by any task.
NextLifecycle ==
    \/ \E i \in Instances, ip \in LocalIPs, binds \in BOOLEAN : Construct(i, ip, binds)
    \/ \E t \in Tasks : DisconnectStep(t, Instances)

SpecLifecycle == InitProcess /\ [][NextLifecycle]_vars

\* C28: across any sequence of constructions and disconnects, no two started
\* Base objects have the same localIPAddr, and every Base with _started true
\* has its localIPAddr in Base._used_ips.
C28_StartedAddressesUnique ==
    /\ \A i, j \in Instances :
         (i # j /\ bases[i]._started /\ bases[j]._started)
           => bases[i].localIPAddr # bases[j].localIPAddr
    /\ \A i \in Instances : bases[i]._started => bases[i].localIPAddr \in _used_ips

\* C29: constructing a Base on an address that is in Base._used_ips, or that
\* fails validation, raises InitializationError before any application is
\* created, and leaves Base._used_ips as it was.
C29_RejectedBeforeApplication ==
    [][\A i \in Instances, ip \in LocalIPs, binds \in BOOLEAN :
          (Construct(i, ip, binds) /\ (ip \in _used_ips \/ ~validate_ip_address(ip)))
            => /\ bases'[i].outcome = "InitializationError"
               /\ bases'[i].this_application = 0
               /\ ~bases'[i]._initialized /\ ~bases'[i]._started
               /\ _used_ips' = _used_ips]_vars

\* A Base is running on IPA, and a second construction has raised without
\* getting as far as setting its localIPAddr.
C29_Witness ==
    \E i, j \in Instances :
        /\ bases[i]._started /\ bases[i].localIPAddr = IPA
        /\ bases[j].outcome = "InitializationError"
        /\ bases[j].localIPAddr = ""
        /\ bases[j].this_application = 0
        /\ _used_ips = {IPA}

\* C30: _disconnect first stops all running tasks, then closes the
\* application, and only then sets _stopped true and _started false and
\* takes localIPAddr out of Base._used_ips: the steps before the last leave
\* the flags and the set alone.  Once it has completed, a new Base is not
\* refused on the same address.
C30_DisconnectInOrder ==
    [][\A t \in Tasks :
          /\ \A i \in Instances :
                DisconnectCall(t, i) =>
                    /\ calls'[t] = <<"stopAllTasks">>
                    /\ bases' = bases /\ _used_ips' = _used_ips
          /\ DisconnectClose(t) =>
                /\ calls'[t] = <<"stopAllTasks", "close">>
                /\ bases' = bases /\ _used_ips' = _used_ips
          /\ DisconnectFlags(t) =>
                LET i == loc[t].self IN
                /\ calls[t] = <<"stopAllTasks", "close">>
                /\ bases'[i]._stopped /\ ~bases'[i]._started
                /\ bases[i].localIPAddr \notin _used_ips'
                /\ ~InitRejects(_used_ips', bases[i].localIPAddr)]_vars

\* A Base has been disconnected, and a Base made after it runs on its address.
C30_Witness ==
    \E i, j \in Instances :
        /\ i < j
        /\ bases[i]._stopped /\ ~bases[i]._started
        /\ bases[j]._started /\ ~bases[j]._stopped
        /\ bases[j].localIPAddr = bases[i].localIPAddr

\* ------------------------------------------------------------ script_runner

\* run(main_task, bacnet) has installed its handler and is in
\* loop.run_forever(); bacnet is the Base that was constructed, or None.
InitRun ==
    /\ router_dnets = <<>>
    /\ path_info = <<>>
    /\ learnedNetworks = {}
    /\ routers = EmptyDict
    /\ pc = [t \in Tasks |-> "idle"]
    /\ op = [t \in Tasks |-> "none"]
    /\ loc = [t \in Tasks |-> NoLoc]
    /\ ret = [t \in Tasks |-> NoRet]
    /\ calls = [t \in Tasks |-> <<>>]
    /\ running = 0
    /\ OneBase
    /\ runner \in {[loop |-> "run_forever", bacnet |-> b] : b \in {None, 1}}
    /\ PointInService

Signals == {"SIGINT", "SIGTERM"}

\* handler(sig, frame): with a bacnet, bacnet.disconnect() makes a task of
\* _disconnect() that has not run yet; then loop.stop().  Python runs the
\* handler between two instructions of whatever the loop is doing, also in
\* the middle of a task's step.
Handler(sig) ==
    /\ runner.loop = "run_forever"
    /\ runner' = [runner EXCEPT !.loop = "stopping"]
    /\ IF runner.bacnet # None
       THEN \E t \in Tasks :
               /\ pc[t] = "idle"
               /\ pc' = [pc EXCEPT ![t] = "created"]
               /\ op' = [op EXCEPT ![t] = "_disconnect"]
               /\ loc' = [loc EXCEPT ![t] = [NoLoc EXCEPT !.self = runner.bacnet]]
               /\ ret' = [ret EXCEPT ![t] = NoRet]
               /\ calls' = [calls EXCEPT ![t] = <<>>]
       ELSE UNCHANGED <<pc, op, loc, ret, calls>>
    /\ UNCHANGED <<router_dnets, path_info, learnedNetworks, routers, running,
                   _used_ips, bases, apps, current, point>>

\* The task disconnect() made gets its first step: _disconnect up to
\* `await stopAllTasks()`.
DisconnectStarts(t) ==
    /\ Scheduled(t)
    /\ pc[t] = "created"
    /\ calls' = [calls EXCEPT ![t] = <<"stopAllTasks">>]
    /\ pc' = [pc EXCEPT ![t] = "stopAllTasks"]
    /\ running' = 0
    /\ UNCHANGED <<router_dnets, path_info, learnedNetworks, routers, op, loc,
                   ret, world>>

\* loop.run_forever() returns: the stopped loop has ended its iteration, no
\* step is under way.  run takes all_tasks and cancels each of them.
RunForeverReturns ==
    /\ runner.loop = "stopping"
    /\ running = 0
    /\ runner' = [runner EXCEPT !.loop = "cancelling"]
    /\ UNCHANGED <<router_dnets, path_info, learnedNetworks, routers, pc, op, loc,
                   ret, calls, running, _used_ips, bases, apps, current, point>>

\* loop.run_until_complete(gather(...)): a cancelled task gets CancelledError
\* where it waits, or before its first step; nothing here catches it.
CancelledTask(t) ==
    /\ runner.loop = "cancelling"
    /\ pc[t] # "idle"
    /\ Finish(t, Ended(NoRet, Raise("CancelledError")))
    /\ UNCHANGED <<router_dnets, path_info, learnedNetworks, routers, op,
                   _used_ips, bases, apps, current, runner, point>>

\* Every task is done: loop.close().
LoopClose ==
    /\ runner.loop = "cancelling"
    /\ \A t \in Tasks : pc[t] = "idle"
    /\ runner' = [runner EXCEPT !.loop = "closed"]
    /\ UNCHANGED <<router_dnets, path_info, learnedNetworks, routers, pc, op, loc,
                   ret, calls, running, _used_ips, bases, apps, current, point>>

\* run while the tasks of main_task call use_router.
NextRun ==
    \/ \E sig \in Signals : Handler(sig)
    \/ RunForeverReturns
    \/ LoopClose
    \/ \E t \in Tasks :
        \/ RegistrarStep(t, LiveInfos)
        \/ DisconnectStarts(t)
        \/ DisconnectClose(t)
        \/ DisconnectFlags(t)
        \/ CancelledTask(t)

SpecRun == InitRun /\ [][NextRun]_vars

\* C31: when run gets SIGINT or SIGTERM with a bacnet, the disconnect it
\* starts has run to its end (_stopped true, _started false, localIPAddr out
\* of Base._used_ips) before run cancels the tasks and closes the loop.
C31_DisconnectBeforeCancel ==
    (runner.bacnet # None /\ runner.loop \in {"cancelling", "closed"}) =>
        /\ bases[runner.bacnet]._stopped
        /\ ~bases[runner.bacnet]._started
        /\ bases[runner.bacnet].localIPAddr \notin _used_ips

\* --------------------------------------------------------------- Simulation

\* The values sim is asked to write; the point's own value is 0.
SimValues == {1, 2}

\* How a read or a write of the point ends: the controller answers, or
\* NoResponseFromController is raised.
Responses == {"ok", "noresponse"}

\* Faulty variant: the methods do not look at _started
NotStartedIgnored == FALSE

\* if not self._started: raise ApplicationNotStarted
NotStarted == ~bases[current]._started

\* What the call of task t has asked of the network, request r added.
Request(t, r) == [calls EXCEPT ![t] = Append(@, r)]

\* The answer of a read of outOfService, as ret records it.
ReadAs(resp) ==
    IF resp = "noresponse" THEN "noresponse"
    ELSE IF point.outOfService THEN "true" ELSE "false"

\* Faulty variant: the value is written whatever the read returned
SimWritesOnAny(oos) == TRUE

\* if await self.is_out_of_service(args): the value is written
SimWritesOn(oos) == oos = "true"

\* else: raise OutOfServiceNotSet()
SimOnNotSet == Raise("OutOfServiceNotSet")

\* except NoResponseFromController in sim: the warning, and sim returns.
SimOnNoResponse == Return(PyNone, "warning")

\* sim up to its first suspension: the _started check, then
\* is_out_of_service reads the point's outOfService.
SimCall(t, value) ==
    /\ Begin(t, "sim")
    /\ IF NotStarted
       THEN Finish(t, Ended(NoRet, Raise("ApplicationNotStarted")))
       ELSE /\ loc' = [loc EXCEPT ![t] = [NoLoc EXCEPT !.value = value]]
            /\ calls' = [calls EXCEPT ![t] = <<"read outOfService">>]
            /\ pc' = [pc EXCEPT ![t] = "sim_read1"]
            /\ ret' = [ret EXCEPT ![t] = NoRet]
            /\ running' = 0
    /\ UNCHANGED <<router_dnets, path_info, learnedNetworks, routers, world>>

\* The first read returns.  No response: the exception leaves sim.  True:
\* the value is written.  False: out_of_service writes outOfService True.
SimRead1Return(t, resp) ==
    /\ Scheduled(t)
    /\ pc[t] = "sim_read1"
    /\ LET oos == ReadAs(resp) IN
       IF oos = "noresponse"
       THEN Finish(t, Ended(Delivered(oos, PyNone), Raise("NoResponseFromController")))
       ELSE IF SimWritesOn(oos)
       THEN /\ calls' = Request(t, "write presentValue")
            /\ pc' = [pc EXCEPT ![t] = "sim_write1"]
            /\ ret' = [ret EXCEPT ![t] = Delivered(oos, PyNone)]
            /\ running' = 0
            /\ loc' = loc
       ELSE IF NotStarted
       THEN Finish(t, Ended(Delivered(oos, PyNone), Raise("ApplicationNotStarted")))
       ELSE /\ calls' = Request(t, "write outOfService True")
            /\ pc' = [pc EXCEPT ![t] = "sim_oos"]
            /\ ret' = [ret EXCEPT ![t] = Delivered(oos, PyNone)]
            /\ running' = 0
            /\ loc' = loc
    /\ UNCHANGED <<router_dnets, path_info, learnedNetworks, routers, op, world>>

\* force_reliability as sim calls it after the value is written: its own
\* _started check, then the write of reliability.
SimForcesReliability(t, resp) ==
    IF NotStarted
    THEN Finish(t, Ended(Delivered(resp, PyNone), Raise("ApplicationNotStarted")))
    ELSE /\ calls' = Request(t, "write reliability")
         /\ pc' = [pc EXCEPT ![t] = "sim_rel"]
         /\ ret' = [ret EXCEPT ![t] = Delivered(resp, PyNone)]
         /\ running' = 0
         /\ loc' = [loc EXCEPT ![t].written = TRUE]

\* The write of the value returns, the point having been out of service at
\* once.  No response: the exception leaves sim.
SimWrite1Return(t, resp) ==
    /\ Scheduled(t)
    /\ pc[t] = "sim_write1"
    /\ IF resp = "noresponse"
       THEN /\ Finish(t, Ended(Delivered(resp, PyNone), Raise("NoResponseFromController")))
            /\ point' = point
       ELSE /\ point' = [point EXCEPT !.presentValue = loc[t].value]
            /\ SimForcesReliability(t, resp)
    /\ UNCHANGED <<router_dnets, path_info, learnedNetworks, routers, op,
                   _used_ips, bases, apps, current, runner>>

\* The write of outOfService True returns; out_of_service logs a missing
\* response and returns.  is_out_of_service then reads the point again.
SimOosReturn(t, resp) ==
    /\ Scheduled(t)
    /\ pc[t] = "sim_oos"
    /\ point' = IF resp = "ok" THEN [point EXCEPT !.outOfService = TRUE] ELSE point
    /\ IF NotStarted
       THEN Finish(t, Ended(Delivered(resp, PyNone), Raise("ApplicationNotStarted")))
       ELSE /\ calls' = Request(t, "read outOfService")
            /\ pc' = [pc EXCEPT ![t] = "sim_read2"]
            /\ ret' = [ret EXCEPT ![t] = Delivered(resp, PyNone)]
            /\ running' = 0
            /\ loc' = loc
    /\ UNCHANGED <<router_dnets, path_info, learnedNetworks, routers, op,
                   _used_ips, bases, apps, current, runner>>

\* The second read returns.  No response: the warning, and sim returns.
\* True: the value is written.  False: OutOfServiceNotSet.
SimRead2Return(t, resp) ==
    /\ Scheduled(t)
    /\ pc[t] = "sim_read2"
    /\ LET oos == ReadAs(resp) IN
       IF oos = "noresponse"
       THEN Finish(t, Ended(Delivered(oos, PyNone), SimOnNoResponse))
       ELSE IF SimWritesOn(oos)
       THEN /\ calls' = Request(t, "write presentValue")
            /\ pc' = [pc EXCEPT ![t] = "sim_write2"]
            /\ ret' = [ret EXCEPT ![t] = Delivered(oos, PyNone)]
            /\ running' = 0
            /\ loc' = loc
       ELSE Finish(t, Ended(Delivered(oos, PyNone), SimOnNotSet))
    /\ UNCHANGED <<router_dnets, path_info, learnedNetworks, routers, op, world>>

\* The write of the value returns, after out_of_service.  No response: the
\* warning, and sim returns.
SimWrite2Return(t, resp) ==
    /\ Scheduled(t)
    /\ pc[t] = "sim_write2"
    /\ IF resp = "noresponse"
       THEN /\ Finish(t, Ended(Delivered(resp, PyNone), SimOnNoResponse))
            /\ point' = point
       ELSE /\ point' = [point EXCEPT !.presentValue = loc[t].value]
            /\ SimForcesReliability(t, resp)
    /\ UNCHANGED <<router_dnets, path_info, learnedNetworks, routers, op,
                   _used_ips, bases, apps, current, runner>>

\* The write of reliability returns; force_reliability logs a missing
\* response.  sim returns.
SimRelReturn(t, resp) ==
    /\ Scheduled(t)
    /\ pc[t] = "sim_rel"
    /\ point' = IF resp = "ok" THEN [point EXCEPT !.reliability = 0] ELSE point
    /\ Finish(t, Ended(Delivered(resp, PyNone),
                       Return(PyNone, IF resp = "ok" THEN "" ELSE "warning")))
    /\ UNCHANGED <<router_dnets, path_info, learnedNetworks, routers, op,
                   _used_ips, bases, apps, current, runner>>

\* The steps of sim, its value drawn from values.
SimStep(t, values) ==
    \/ \E v \in values : SimCall(t, v)
    \/ \E resp \in Responses :
        \/ SimRead1Return(t, resp)
        \/ SimWrite1Return(t, resp)
        \/ SimOosReturn(t, resp)
        \/ SimRead2Return(t, resp)
        \/ SimWrite2Return(t, resp)
        \/ SimRelReturn(t, resp)

\* Faulty variant: a point that is still out of service is only logged
ReleaseOnStillSetReturns == Return(PyNone, "warning")

\* if await self.is_out_of_service(args) is True: raise OutOfServiceSet()
ReleaseOnStillSet == Raise("OutOfServiceSet")

\* except NoResponseFromController around the read-back: the warning.
ReleaseOnNoResponse == Return(PyNone, "warning")

\* release up to its first suspension: the _started check, then the write
\* of outOfService False.
ReleaseCall(t) ==
    /\ Begin(t, "release")
    /\ IF NotStarted
       THEN Finish(t, Ended(NoRet, Raise("ApplicationNotStarted")))
       ELSE /\ loc' = [loc EXCEPT ![t] = NoLoc]
            /\ calls' = [calls EXCEPT ![t] = <<"write outOfService False">>]
            /\ pc' = [pc EXCEPT ![t] = "release_write"]
            /\ ret' = [ret EXCEPT ![t] = NoRet]
            /\ running' = 0
    /\ UNCHANGED <<router_dnets, path_info, learnedNetworks, routers, world>>

\* The write returns, a missing response is logged; is_out_of_service reads
\* the point back.
ReleaseWriteReturn(t, resp) ==
    /\ Scheduled(t)
    /\ pc[t] = "release_write"
    /\ point' = IF resp = "ok" THEN [point EXCEPT !.outOfService = FALSE] ELSE point
    /\ IF NotStarted
       THEN Finish(t, Ended(Delivered(resp, PyNone), Raise("ApplicationNotStarted")))
       ELSE /\ calls' = Request(t, "read outOfService")
            /\ pc' = [pc EXCEPT ![t] = "release_read"]
            /\ ret' = [ret EXCEPT ![t] = Delivered(resp, PyNone)]
            /\ running' = 0
            /\ loc' = loc
    /\ UNCHANGED <<router_dnets, path_info, learnedNetworks, routers, op,
                   _used_ips, bases, apps, current, runner>>

\* The read-back returns.  True: OutOfServiceSet.  False: release returns.
\* No response: the warning, and release returns.
ReleaseReadReturn(t, resp) ==
    /\ Scheduled(t)
    /\ pc[t] = "release_read"
    /\ LET oos == ReadAs(resp) IN
       Finish(t, Ended(Delivered(oos, PyNone),
                       IF oos = "noresponse" THEN ReleaseOnNoResponse
                       ELSE IF oos = "true" THEN ReleaseOnStillSet
                       ELSE Return(PyNone, "")))
    /\ UNCHANGED <<router_dnets, path_info, learnedNetworks, routers, op, world>>

\* The steps of release.
ReleaseStep(t) ==
    \/ ReleaseCall(t)
    \/ \E resp \in Responses :
        \/ ReleaseWriteReturn(t, resp)
        \/ ReleaseReadReturn(t, resp)

PyBool(b) == [type |-> "bool", list |-> <<>>, int |-> IF b THEN 1 ELSE 0]

\* is_out_of_service called on its own: the _started check, the read, and
\* True or False for what was read; a missing response is not caught.
IsOutOfServiceCall(t) ==
    /\ Begin(t, "is_out_of_service")
    /\ IF NotStarted
       THEN Finish(t, Ended(NoRet, Raise("ApplicationNotStarted")))
       ELSE /\ loc' = [loc EXCEPT ![t] = NoLoc]
            /\ calls' = [calls EXCEPT ![t] = <<"read outOfService">>]
            /\ pc' = [pc EXCEPT ![t] = "oos_read"]
            /\ ret' = [ret EXCEPT ![t] = NoRet]
            /\ running' = 0
    /\ UNCHANGED <<router_dnets, path_info, learnedNetworks, routers, world>>

IsOutOfServiceReturn(t, resp) ==
    /\ Scheduled(t)
    /\ pc[t] = "oos_read"
    /\ LET oos == ReadAs(resp) IN
       Finish(t, Ended(Delivered(oos, PyNone),
                       IF oos = "noresponse" THEN Raise("NoResponseFromController")
                       ELSE Return(PyBool(oos = "true"), "")))
    /\ UNCHANGED <<router_dnets, path_info, learnedNetworks, routers, op, world>>

\* out_of_service called on its own: the _started check, the write of
\* outOfService True, a missing response logged.
OutOfServiceCall(t) ==
    /\ Begin(t, "out_of_service")
    /\ IF NotStarted
       THEN Finish(t, Ended(NoRet, Raise("ApplicationNotStarted")))
       ELSE /\ loc' = [loc EXCEPT ![t] = NoLoc]
            /\ calls' = [calls EXCEPT ![t] = <<"write outOfService True">>]
            /\ pc' = [pc EXCEPT ![t] = "oos_write"]
            /\ ret' = [ret EXCEPT ![t] = NoRet]
            /\ running' = 0
    /\ UNCHANGED <<router_dnets, path_info, learnedNetworks, routers, world>>

OutOfServiceReturn(t, resp) ==
    /\ Scheduled(t)
    /\ pc[t] = "oos_write"
    /\ point' = IF resp = "ok" THEN [point EXCEPT !.outOfService = TRUE] ELSE point
    /\ Finish(t, Ended(Delivered(resp, PyNone),
                       Return(PyNone, IF resp = "ok" THEN "" ELSE "warning")))
    /\ UNCHANGED <<router_dnets, path_info, learnedNetworks, routers, op,
                   _used_ips, bases, apps, current, runner>>

\* force_reliability called on its own: the _started check, the write of
\* reliability, a missing response logged.
ForceReliabilityCall(t) ==
    /\ Begin(t, "force_reliability")
    /\ IF NotStarted
       THEN Finish(t, Ended(NoRet, Raise("ApplicationNotStarted")))
       ELSE /\ loc' = [loc EXCEPT ![t] = NoLoc]
            /\ calls' = [calls EXCEPT ![t] = <<"write reliability">>]
            /\ pc' = [pc EXCEPT ![t] = "rel_write"]
            /\ ret' = [ret EXCEPT ![t] = NoRet]
            /\ running' = 0
    /\ UNCHANGED <<router_dnets, path_info, learnedNetworks, routers, world>>

ForceReliabilityReturn(t, resp) ==
    /\ Scheduled(t)
    /\ pc[t] = "rel_write"
    /\ point' = IF resp = "ok" THEN [point EXCEPT !.reliability = 0] ELSE point
    /\ Finish(t, Ended(Delivered(resp, PyNone),
                       Return(PyNone, IF resp = "ok" THEN "" ELSE "warning")))
    /\ UNCHANGED <<router_dnets, path_info, learnedNetworks, routers, op,
                   _used_ips, bases, apps, current, runner>>

\* The steps of the three called on their own.
PointStep(t) ==
    \/ IsOutOfServiceCall(t)
    \/ OutOfServiceCall(t)
    \/ ForceReliabilityCall(t)
    \/ \E resp \in Responses :
        \/ IsOutOfServiceReturn(t, resp)
        \/ OutOfServiceReturn(t, resp)
        \/ ForceReliabilityReturn(t, resp)

\* sim and release from any task, while the Base may be disconnected.
NextSim ==
    \E t \in Tasks :
        \/ SimStep(t, SimValues)
        \/ ReleaseStep(t)
        \/ DisconnectStep(t, {1})

SpecSim == Init /\ [][NextSim]_vars

\* release, and out_of_service to take the point out of service again.
NextRelease ==
    \E t \in Tasks :
        \/ ReleaseStep(t)
        \/ OutOfServiceCall(t)
        \/ \E resp \in Responses : OutOfServiceReturn(t, resp)
        \/ DisconnectStep(t, {1})

SpecRelease == Init /\ [][NextRelease]_vars

\* The five methods of Simulation on a Base that is disconnected meanwhile.
NextStopped ==
    \/ \E t \in {1, 2} :
          \/ SimStep(t, {1})
          \/ ReleaseStep(t)
          \/ PointStep(t)
    \/ \E t \in Tasks : DisconnectStep(t, {1})

SpecStopped == Init /\ [][NextStopped]_vars

\* The request that writes the value sim was asked to write.
ValueWrite == "write presentValue"

\* Where sim waits for a read of outOfService.
SimReads == {"sim_read1", "sim_read2"}

\* C32: sim sets Out_Of_Service before it writes the value: the write of the
\* requested value is issued only in the step in which a read of the point's
\* outOfService has returned true, and no value write is issued when that
\* read returns false.
C32_WriteOnlyWhenOutOfService ==
    [][\A t \in Tasks :
          /\ Issued(t, ValueWrite)' > Issued(t, ValueWrite)
               => pc[t] \in SimReads /\ ret'[t].event = "true"
          /\ (pc[t] \in SimReads /\ pc'[t] # pc[t] /\ ret'[t].event = "false")
               => Issued(t, ValueWrite)' <= Issued(t, ValueWrite)]_vars

\* sim found the point in service, set outOfService, read it back as true
\* and has issued the write of the value.
C32_Witness ==
    \E t \in Tasks :
        /\ op[t] = "sim" /\ pc[t] = "sim_write2"
        /\ calls[t] = <<"read outOfService", "write outOfService True",
                        "read outOfService", "write presentValue">>
        /\ ret[t].event = "true"
        /\ point.outOfService

\* The call of sim by task t returns normally in this step.
SimReturns(t) ==
    /\ op[t] = "sim" /\ pc[t] # "idle"
    /\ pc'[t] = "idle" /\ ret'[t].status = "returned"

\* The read-back of sim by task t shows, in this step, the point still in service.
SimStillInService(t) ==
    pc[t] = "sim_read2" /\ pc'[t] # pc[t] /\ ret'[t].event = "false"

\* C33: whenever sim returns normally, the requested value has
\* been written to the point; if the point is still not out of service after
\* sim tried to set it, sim raises OutOfServiceNotSet instead of returning.
C33_ReturnMeansWritten ==
    [][\A t \in Tasks :
          /\ SimReturns(t) => loc[t].written
          /\ SimStillInService(t)
               => ret'[t].status = "raised" /\ ret'[t].exc = "OutOfServiceNotSet"]_vars

\* The read-back of release by task t returns in this step.
ReleaseReadsBack(t) ==
    /\ pc[t] = "release_read" /\ pc'[t] = "idle"
    /\ calls[t] = <<"write outOfService False", "read outOfService">>

\* C34 (as claimed): release writes outOfService False and then reads it
\* back: it raises OutOfServiceSet whenever the read-back shows the point
\* still out of service, and whenever it returns normally the point has been
\* read back as not out of service.
C34_ReleaseReadBack ==
    [][\A t \in Tasks :
          (op[t] = "release" /\ pc[t] # "idle" /\ pc'[t] = "idle") =>
              /\ ret'[t].status = "returned" => ReleaseReadsBack(t) /\ ret'[t].event = "false"
              /\ (ReleaseReadsBack(t) /\ ret'[t].event = "true")
                   => ret'[t].status = "raised" /\ ret'[t].exc = "OutOfServiceSet"]_vars

\* C34 (amended): the same, but when release returns normally the point has
\* been read back as not out of service, or the read-back got no response
\* from the controller and release has logged a warning.
C34_ReleaseReadBackOrNoResponse ==
    [][\A t \in Tasks :
          (op[t] = "release" /\ pc[t] # "idle" /\ pc'[t] = "idle") =>
              /\ ret'[t].status = "returned" =>
                   /\ ReleaseReadsBack(t)
                   /\ \/ ret'[t].event = "false"
                      \/ ret'[t].event = "noresponse" /\ ret'[t].log = "warning"
              /\ (ReleaseReadsBack(t) /\ ret'[t].event = "true")
                   => ret'[t].status = "raised" /\ ret'[t].exc = "OutOfServiceSet"]_vars

\* A release has read the point back as in service and returned; another
\* has read it back as out of service and raised.
C34_Witness ==
    \E t, u \in Tasks :
        /\ op[t] = "release" /\ pc[t] = "idle"
        /\ ret[t].status = "returned" /\ ret[t].event = "false"
        /\ op[u] = "release" /\ pc[u] = "idle"
        /\ ret[u].exc = "OutOfServiceSet" /\ ret[u].event = "true"

\* Task t calls one of the five methods of Simulation in this step.
SimulationCall(t) ==
    \/ \E v \in SimValues : SimCall(t, v)
    \/ IsOutOfServiceCall(t)
    \/ OutOfServiceCall(t)
    \/ ForceReliabilityCall(t)
    \/ ReleaseCall(t)

\* C35: when the application is not started (_started false), each of sim,
\* is_out_of_service, out_of_service, force_reliability and release raises
\* ApplicationNotStarted in the step that calls it: no read and no write has
\* been issued, and the point is as it was.
C35_NotStartedRaises ==
    [][\A t \in Tasks :
          (SimulationCall(t) /\ ~bases[current]._started) =>
              /\ pc'[t] = "idle"
              /\ ret'[t].status = "raised" /\ ret'[t].exc = "ApplicationNotStarted"
              /\ ret'[t].event = ""
              /\ calls'[t] = <<>>
              /\ point' = point]_vars

\* The Base has been disconnected; sim and release have been called on it
\* since and have raised.
C35_Witness ==
    \E t, u \in Tasks :
        /\ bases[current]._stopped /\ ~bases[current]._started
        /\ op[t] = "sim" /\ pc[t] = "idle"
        /\ ret[t].exc = "ApplicationNotStarted" /\ ret[t].event = ""
        /\ op[u] = "release" /\ pc[u] = "idle"
        /\ ret[u].exc = "ApplicationNotStarted" /\ ret[u].event = ""

====
